---- MODULE Spec2Model ----
(***************************************************************************)
(* A model of RMTPy: random-matrix ensembles, the spectral-statistics      *)
(* accumulation drivers, the Data containers and their archive writes.     *)
(*                                                                         *)
(* Numbers.  Matrix entries are complex numbers <<re, im>> with integer    *)
(* parts, in units of the ensemble's scale factor (sigma/2, sigma/sqrt 2). *)
(* Averages that the code divides are exact rationals <<num, den>>; a      *)
(* division by zero yields NaN, as numpy's float division does.            *)
(***************************************************************************)
EXTENDS Integers, Sequences, FiniteSets, TLC

VARIABLES
    \* --- the ensemble object (ensembles/_base/_manybody.py) ---
    ens,        \* class of the ensemble object
    N,          \* its number of Majoranas
    dim,        \* its matrix dimension
    \* --- matrix generators (ensembles/*.py) ---
    offset,     \* TRUE iff the caller passes a buffer to the generator
    bufs,       \* the matrices on the heap, by object identity
    ret,        \* identity of the object the generator returned ("none" before)
    gpc,        \* position of the caller: "call" -> "done"
    \* --- spectral statistics (simulations/spectral_simulation.py) ---
    realizs,    \* number of realizations R of the run
    cfg,        \* bin configuration <<Ei, width, num_bins>> of the data objects
    bins,       \* bin edges per histogram
    hist,       \* histogram values per histogram
    mu_1,       \* first moment per family ("raw", "unf"), one entry per time
    mu_2,       \* second moment per family
    sff,        \* spectral form factor per family
    csff,       \* connected spectral form factor per family
    spectra,    \* the spectra eigvals_stream has yielded so far
    spc,        \* position of the run: "new" -> "loop" -> "calculated" | "analysed"
    \* --- construction of an ensemble (ensembles/_rmt.py, syk.py, _base, base) ---
    kwargs,     \* keyword arguments of the constructor call: N, dim, q (None or a value)
    qParam,     \* the q of the object (0 where the class has none)
    cpc,        \* position of the caller: "new" -> "built" | "raised"
    calls,      \* operations performed on the object since its construction
    lastop,     \* the last of them
    \* --- archive writes and Data.load (data/_data.py, data/__init__.py, ...) ---
    writer,     \* the code that writes: "Data.save", "CDOEvolve.run", "cdo_calc_stats"
    dataObj,    \* the Data instance being saved (<<>> for the other writers)
    oldSavez,   \* TRUE iff np.savez of the installed numpy takes no allow_pickle
    fs,         \* the files at the final and the temporary path
    prev,       \* the file at the final path before the write
    buf,        \* entries written to the file object and not yet flushed
    disk,       \* entries of the temporary file that fsync has forced to disk
    ntasks,     \* number of archives the writer writes
    nfile,      \* index of the archive being written
    wpc,        \* "start" -> "open" -> "flushed" -> "synced" -> "moved" (-> "loaded"), or "crashed"
    loaded,     \* what Data.load returned or raised
    \* --- worker pool over a shared array (simulations/cdo_evolution.py) ---
    numRealizs,     \* realizs
    num_workers,    \* number of worker processes
    evolved_states, \* per realization index, the workers that wrote it
    finished,       \* workers that have returned
    poolpc,         \* "map" while the pool runs, "joined" afterwards
    \* --- a data container through its life (data/spectral_statistics_data) ---
    cont,  \* the container [cls, vals] (before construction: the arguments)
    accum, \* number of samples accumulated into it
    npOld, \* TRUE iff np.savez of the installed numpy takes no allow_pickle
    dpc,    \* "new" -> "built" -> "final" -> "loaded", or "raised"
    \* --- SYK.generate (ensembles/syk.py) ---
    sykq,     \* the q of the SYK object
    eta,      \* its suppression factor, a rational
    indices,  \* the current q-tuple of Majorana indices
    products, \* products[i]: the product of the Majoranas at indices[0..i], as the tuple of its factors
    sykH,     \* the products added to the Hamiltonian so far, in order, one random draw each
    ypc,       \* "new" -> "built" -> "loop" -> "scale" -> "done"
    \* --- von Neumann entropy of a density operator (cdo_calc_stats.py, cdo_evolution.py, evolve_cdo_simulation.py) ---
    site, \* the code that computes the entropy
    cdoEig, \* eigenvalues of the density operator, ascending, in units of 1e-10
    entropy, \* the stored entropy: the eigenvalues whose logarithm was taken, and whether the sum is finite
    epc, \* "eig" -> "stored"
    \* --- reconstruction of objects from deserialized records (serialization/__init__.py, ensembles/__init__.py, simulations/__init__.py, data/__init__.py, utils.py) ---
    regSite, \* the function that reconstructs
    record, \* the deserialized record
    outcome, \* what the reconstruction returned or raised
    rpc, \* "record" -> "done"
    \* --- construction of a Monte Carlo simulation (simulations/_mc.py) ---
    mcArgs, \* realizations, workers and memory asked for, and what the machine and the ensemble give
    mcSim, \* the constructed simulation, or the exception
    mcpc, \* "args" -> "constructed" | "raised"
    \* --- streams of eigen-decompositions (ensembles/_base/_manybody.py, ensembles/compound.py) ---
    strKind, \* the generator function called
    strR, \* its argument realizs
    gtor, \* the generator object: "created" -> "suspended" -> "ended"
    scratch, \* the scratch matrix, once allocated
    allocs, \* number of matrices the generator allocated
    drawn, \* the random parts drawn so far, one per realization
    yielded, \* the results handed to the consumer so far
    nexts, \* number of next() calls of the consumer
    \* --- a simulation saved to a directory and reconstructed from it (simulations/base/simulation.py, simulations/__init__.py) ---
    simObj, \* the simulation that is saved
    simDir, \* the directory: metadata.json and the data folders
    rebuilt, \* what sim_structure_hook returned or raised
    dirpc, \* "run" -> "saved" -> "loaded"
    \* --- the analysis script that combines result files (analyses/spectral_statistics.py) ---
    resFiles, \* the result files of the data directory
    listing, \* the order in which iterdir lists them, for each of two runs of the script
    combined, \* what each of the two runs computed
    \* --- the spacing histogram of one spectrum (simulations/spectral_simulation.py spacings_histogram) ---
    spLevels, \* the sorted levels handed to spacings_histogram
    spDegen, \* its argument degen
    spEdges, \* its argument bins
    spCounts, \* the counts it returned
    sppc, \* "call" -> "returned"
    \* --- the script that combines the statistics of the chunks of times (analyses/cdo_combine_res.py) ---
    gridT, \* number of times of the simulation
    gridN, \* number of chunks of times, one statistics file each
    timeVal, \* the statistic computed at each time
    chunkListing, \* the order in which iterdir lists the files
    archive, \* the arrays written to cdo_evolve.npz
    cbpc, \* "listed" -> "written"
    \* --- the time indices given to the tasks (simulations/cdo_evolve.py, simulations/cdo_evolution.py) ---
    splitSite, \* the code that divides the times
    splitT, \* number of time points
    splitN, \* number of tasks
    ranges, \* ranges[k]: the half-open range of time indices of task k, once computed
    kpc, \* "split" -> "done"
    \* --- CDOEvolution.run and its shared block of evolved states (simulations/cdo_evolution.py) ---
    shmWorkers, \* self.workers
    shmLinked, \* TRUE while the block that run created exists
    shmOpen, \* TRUE while run holds the block open
    evolveSt, \* evolveSt[id]: "pending" -> "running" -> "done" | "failed"
    statsSt, \* statsSt[id]: "pending" -> "running" -> "done" | "failed"
    runpc, \* "start" -> "evolve" -> "stats" -> "close" -> "unlink" -> "process" -> "returned", or "raised"
    \* --- evolve tasks writing into one times_n directory while a statistics task reads it (simulations/cdo_evolve.py, analyses/cdo_calc_stats.py) ---
    numTasks, \* number of evolve tasks, with process ids 0..numTasks-1
    dirFiles, \* the files of the directory by name: absent, or who wrote how many entries
    taskpc, \* taskpc[id]: "start" -> "open" -> "synced" -> "moved"
    listed, \* the names the statistics task selected, once it has listed the directory
    loadedFiles, \* the files it has loaded, as it found them
    \* --- the arrays a stream hands out and the arrays it writes (ensembles/poisson.py, ensembles/_base/_manybody.py) ---
    alKind, \* the generator function called
    alR, \* its argument realizs
    alHeap, \* the arrays allocated so far; an array is named by its position
    alBind, \* the arrays the local names of the generator are bound to
    alHeld, \* alHeld[k]: the arrays of the k-th result, which the consumer keeps
    alSeen, \* alSeen[k]: what those arrays held when they were yielded
    alpc, \* "created" -> "suspended" -> "ended"
    \* --- the grids of the data containers over repeated calls of realize_monte_carlo (simulations/spectral_simulation.py, simulations/evolve_cdo_simulation.py) ---
    rsSim, \* the class of the simulation object
    rsDim, \* ensemble.dim
    rsGrids, \* bins, unf_bins, spacings bins, times and unf_times of its data containers
    rsCalls, \* number of calls of realize_monte_carlo so far
    rsFirst, \* the grids as the first call left them
    \* --- Poisson.cdf applied to an array of energies (ensembles/poisson.py) ---
    cdfE0, \* the E0 of the ensemble
    cdfArg, \* the array eigval
    cdfOut, \* the array returned
    cdfpc, \* "call" -> "returned"
    \* --- the numerical cumulative density of an ensemble without closed form (ensembles/_base/_manybody.py, ensembles/_rmt.py) ---
    ncClass, \* the class whose cdf is used
    ncStored, \* the interpolant stored on the object, if any
    ncIntegrations, \* number of cumulative_trapezoid calls so far
    ncLog, \* the methods called on the object so far, in order
    ncpc \* "new" -> "built"

ensVars == <<ens, N, dim>>
genVars == <<offset, bufs, ret, gpc>>
statVars == <<realizs, cfg, bins, hist, mu_1, mu_2, sff, csff, spectra, spc>>

consVars == <<kwargs, qParam, cpc, calls, lastop>>

fileVars == <<writer, dataObj, oldSavez, fs, prev, buf, disk, ntasks, nfile, wpc, loaded>>

poolVars == <<numRealizs, num_workers, evolved_states, finished, poolpc>>

contVars == <<cont, accum, npOld, dpc>>

sykVars == <<sykq, eta, indices, products, sykH, ypc>>

entVars == <<site, cdoEig, entropy, epc>>

regVars == <<regSite, record, outcome, rpc>>

mcVars == <<mcArgs, mcSim, mcpc>>

strmVars == <<strKind, strR, gtor, scratch, allocs, drawn, yielded, nexts>>

dirVars == <<simObj, simDir, rebuilt, dirpc>>

combVars == <<resFiles, listing, combined>>

spacVars == <<spLevels, spDegen, spEdges, spCounts, sppc>>

cdorVars == <<gridT, gridN, timeVal, chunkListing, archive, cbpc>>

splitVars == <<splitSite, splitT, splitN, ranges, kpc>>

shmVars == <<shmWorkers, shmLinked, shmOpen, evolveSt, statsSt, runpc>>

concVars == <<numTasks, dirFiles, taskpc, listed, loadedFiles>>

aliasVars == <<alKind, alR, alHeap, alBind, alHeld, alSeen, alpc>>

rescVars == <<rsSim, rsDim, rsGrids, rsCalls, rsFirst>>

cdfVars == <<cdfE0, cdfArg, cdfOut, cdfpc>>

ncdfVars == <<ncClass, ncStored, ncIntegrations, ncLog, ncpc>>

vars == <<ensVars, genVars, statVars, consVars, fileVars, poolVars, contVars, sykVars, entVars, regVars, mcVars, strmVars, dirVars, combVars, spacVars, cdorVars, splitVars, shmVars, concVars, aliasVars, rescVars, cdfVars, ncdfVars>>

\* the parts of the state a group of operations never touches
notGen == <<statVars, consVars, fileVars, poolVars, contVars, sykVars, entVars, regVars, mcVars, strmVars, dirVars, combVars, spacVars, cdorVars, splitVars, shmVars, concVars, aliasVars, rescVars, cdfVars, ncdfVars>>
notStat == <<genVars, consVars, fileVars, poolVars, contVars, sykVars, entVars, regVars, mcVars, strmVars, dirVars, combVars, spacVars, cdorVars, splitVars, shmVars, concVars, aliasVars, rescVars, cdfVars, ncdfVars>>
notCons == <<genVars, statVars, fileVars, poolVars, contVars, sykVars, entVars, regVars, mcVars, strmVars, dirVars, combVars, spacVars, cdorVars, splitVars, shmVars, concVars, aliasVars, rescVars, cdfVars, ncdfVars>>
notFile == <<ensVars, genVars, statVars, consVars, poolVars, contVars, sykVars, entVars, regVars, mcVars, strmVars, dirVars, combVars, spacVars, cdorVars, splitVars, shmVars, concVars, aliasVars, rescVars, cdfVars, ncdfVars>>
notPool == <<ensVars, genVars, statVars, consVars, fileVars, contVars, sykVars, entVars, regVars, mcVars, strmVars, dirVars, combVars, spacVars, cdorVars, splitVars, shmVars, concVars, aliasVars, rescVars, cdfVars, ncdfVars>>
notCont == <<ensVars, genVars, statVars, consVars, fileVars, poolVars, sykVars, entVars, regVars, mcVars, strmVars, dirVars, combVars, spacVars, cdorVars, splitVars, shmVars, concVars, aliasVars, rescVars, cdfVars, ncdfVars>>
notSyk == <<ensVars, genVars, statVars, consVars, fileVars, poolVars, contVars, entVars, regVars, mcVars, strmVars, dirVars, combVars, spacVars, cdorVars, splitVars, shmVars, concVars, aliasVars, rescVars, cdfVars, ncdfVars>>
notEnt == <<ensVars, genVars, statVars, consVars, fileVars, poolVars, contVars, sykVars, regVars, mcVars, strmVars, dirVars, combVars, spacVars, cdorVars, splitVars, shmVars, concVars, aliasVars, rescVars, cdfVars, ncdfVars>>
notReg == <<ensVars, genVars, statVars, consVars, fileVars, poolVars, contVars, sykVars, entVars, mcVars, strmVars, dirVars, combVars, spacVars, cdorVars, splitVars, shmVars, concVars, aliasVars, rescVars, cdfVars, ncdfVars>>
notMc == <<ensVars, genVars, statVars, consVars, fileVars, poolVars, contVars, sykVars, entVars, regVars, strmVars, dirVars, combVars, spacVars, cdorVars, splitVars, shmVars, concVars, aliasVars, rescVars, cdfVars, ncdfVars>>
notStrm == <<ensVars, genVars, statVars, consVars, fileVars, poolVars, contVars, sykVars, entVars, regVars, mcVars, dirVars, combVars, spacVars, cdorVars, splitVars, shmVars, concVars, aliasVars, rescVars, cdfVars, ncdfVars>>
notDir == <<ensVars, genVars, statVars, consVars, fileVars, poolVars, contVars, sykVars, entVars, regVars, mcVars, strmVars, combVars, spacVars, cdorVars, splitVars, shmVars, concVars, aliasVars, rescVars, cdfVars, ncdfVars>>
notComb == <<ensVars, genVars, statVars, consVars, fileVars, poolVars, contVars, sykVars, entVars, regVars, mcVars, strmVars, dirVars, spacVars, cdorVars, splitVars, shmVars, concVars, aliasVars, rescVars, cdfVars, ncdfVars>>
notSpac == <<ensVars, genVars, statVars, consVars, fileVars, poolVars, contVars, sykVars, entVars, regVars, mcVars, strmVars, dirVars, combVars, cdorVars, splitVars, shmVars, concVars, aliasVars, rescVars, cdfVars, ncdfVars>>
notCdor == <<ensVars, genVars, statVars, consVars, fileVars, poolVars, contVars, sykVars, entVars, regVars, mcVars, strmVars, dirVars, combVars, spacVars, splitVars, shmVars, concVars, aliasVars, rescVars, cdfVars, ncdfVars>>
notSplit == <<ensVars, genVars, statVars, consVars, fileVars, poolVars, contVars, sykVars, entVars, regVars, mcVars, strmVars, dirVars, combVars, spacVars, cdorVars, shmVars, concVars, aliasVars, rescVars, cdfVars, ncdfVars>>
notShm == <<ensVars, genVars, statVars, consVars, fileVars, poolVars, contVars, sykVars, entVars, regVars, mcVars, strmVars, dirVars, combVars, spacVars, cdorVars, splitVars, concVars, aliasVars, rescVars, cdfVars, ncdfVars>>
notConc == <<ensVars, genVars, statVars, consVars, fileVars, poolVars, contVars, sykVars, entVars, regVars, mcVars, strmVars, dirVars, combVars, spacVars, cdorVars, splitVars, shmVars, aliasVars, rescVars, cdfVars, ncdfVars>>
notAlias == <<ensVars, genVars, statVars, consVars, fileVars, poolVars, contVars, sykVars, entVars, regVars, mcVars, strmVars, dirVars, combVars, spacVars, cdorVars, splitVars, shmVars, concVars, rescVars, cdfVars, ncdfVars>>
notResc == <<ensVars, genVars, statVars, consVars, fileVars, poolVars, contVars, sykVars, entVars, regVars, mcVars, strmVars, dirVars, combVars, spacVars, cdorVars, splitVars, shmVars, concVars, aliasVars, cdfVars, ncdfVars>>
notCdf == <<ensVars, genVars, statVars, consVars, fileVars, poolVars, contVars, sykVars, entVars, regVars, mcVars, strmVars, dirVars, combVars, spacVars, cdorVars, splitVars, shmVars, concVars, aliasVars, rescVars, ncdfVars>>
notNcdf == <<ensVars, genVars, statVars, consVars, fileVars, poolVars, contVars, sykVars, entVars, regVars, mcVars, strmVars, dirVars, combVars, spacVars, cdorVars, splitVars, shmVars, concVars, aliasVars, rescVars, cdfVars>>

\* no generator call in progress
GenIdle ==
    /\ offset = FALSE
    /\ bufs = <<>>
    /\ ret = "none"
    /\ gpc = "idle"

\* no spectral-statistics run in progress
StatIdle ==
    /\ realizs = 0
    /\ cfg = <<>>
    /\ bins = <<>>
    /\ hist = <<>>
    /\ mu_1 = <<>>
    /\ mu_2 = <<>>
    /\ sff = <<>>
    /\ csff = <<>>
    /\ spectra = <<>>
    /\ spc = "idle"

\* no constructor call in progress
ConsIdle ==
    /\ kwargs = <<>>
    /\ qParam = 0
    /\ cpc = "idle"
    /\ calls = 0
    /\ lastop = "none"

\* no archive being written or loaded
FileIdle ==
    /\ writer = "none"
    /\ dataObj = <<>>
    /\ oldSavez = FALSE
    /\ fs = <<>>
    /\ prev = <<>>
    /\ buf = <<>>
    /\ disk = <<>>
    /\ ntasks = 0
    /\ nfile = 0
    /\ wpc = "idle"
    /\ loaded = <<>>

\* no ensemble object
EnsIdle ==
    /\ ens = "none"
    /\ N = 0
    /\ dim = 0

\* no worker pool
PoolIdle ==
    /\ numRealizs = 0
    /\ num_workers = 0
    /\ evolved_states = <<>>
    /\ finished = {}
    /\ poolpc = "idle"

\* a data container through its life (data/spectral_statistics_data): nothing
ContIdle ==
    /\ cont = <<>>
    /\ accum = 0
    /\ npOld = FALSE
    /\ dpc = "idle"

\* SYK.generate (ensembles/syk.py): nothing
SykIdle ==
    /\ sykq = 0
    /\ eta = <<>>
    /\ indices = <<>>
    /\ products = <<>>
    /\ sykH = <<>>
    /\ ypc = "idle"

\* von Neumann entropy of a density operator (cdo_calc_stats.py, cdo_evolution.py, evolve_cdo_simulation.py): nothing
EntIdle ==
    /\ site = "none"
    /\ cdoEig = <<>>
    /\ entropy = <<>>
    /\ epc = "idle"

\* reconstruction of objects from deserialized records (serialization/__init__.py, ensembles/__init__.py, simulations/__init__.py, data/__init__.py, utils.py): nothing
RegIdle ==
    /\ regSite = "none"
    /\ record = <<>>
    /\ outcome = <<>>
    /\ rpc = "idle"

\* construction of a Monte Carlo simulation (simulations/_mc.py): nothing
McIdle ==
    /\ mcArgs = <<>>
    /\ mcSim = <<>>
    /\ mcpc = "idle"

\* streams of eigen-decompositions (ensembles/_base/_manybody.py, ensembles/compound.py): nothing
StrmIdle ==
    /\ strKind = "none"
    /\ strR = 0
    /\ gtor = "idle"
    /\ scratch = <<>>
    /\ allocs = 0
    /\ drawn = <<>>
    /\ yielded = <<>>
    /\ nexts = 0

\* a simulation saved to a directory and reconstructed from it (simulations/base/simulation.py, simulations/__init__.py): nothing
DirIdle ==
    /\ simObj = <<>>
    /\ simDir = <<>>
    /\ rebuilt = <<>>
    /\ dirpc = "idle"

\* the analysis script that combines result files (analyses/spectral_statistics.py): nothing
CombIdle ==
    /\ resFiles = <<>>
    /\ listing = <<>>
    /\ combined = <<>>

\* the spacing histogram of one spectrum (simulations/spectral_simulation.py spacings_histogram): nothing
SpacIdle ==
    /\ spLevels = <<>>
    /\ spDegen = 0
    /\ spEdges = <<>>
    /\ spCounts = <<>>
    /\ sppc = "idle"

\* the script that combines the statistics of the chunks of times (analyses/cdo_combine_res.py): nothing
CdorIdle ==
    /\ gridT = 0
    /\ gridN = 0
    /\ timeVal = <<>>
    /\ chunkListing = <<>>
    /\ archive = <<>>
    /\ cbpc = "idle"

\* the time indices given to the tasks (simulations/cdo_evolve.py, simulations/cdo_evolution.py): nothing
SplitIdle ==
    /\ splitSite = ""
    /\ splitT = 0
    /\ splitN = 0
    /\ ranges = <<>>
    /\ kpc = "idle"

\* CDOEvolution.run and its shared block of evolved states (simulations/cdo_evolution.py): nothing
ShmIdle ==
    /\ shmWorkers = 0
    /\ shmLinked = FALSE
    /\ shmOpen = FALSE
    /\ evolveSt = <<>>
    /\ statsSt = <<>>
    /\ runpc = "idle"

\* evolve tasks writing into one times_n directory while a statistics task reads it (simulations/cdo_evolve.py, analyses/cdo_calc_stats.py): nothing
ConcIdle ==
    /\ numTasks = 0
    /\ dirFiles = <<>>
    /\ taskpc = <<>>
    /\ listed = <<>>
    /\ loadedFiles = {}

\* the arrays a stream hands out and the arrays it writes (ensembles/poisson.py, ensembles/_base/_manybody.py): nothing
AliasIdle ==
    /\ alKind = ""
    /\ alR = 0
    /\ alHeap = <<>>
    /\ alBind = <<>>
    /\ alHeld = <<>>
    /\ alSeen = <<>>
    /\ alpc = "idle"

\* the grids of the data containers over repeated calls of realize_monte_carlo (simulations/spectral_simulation.py, simulations/evolve_cdo_simulation.py): nothing
RescIdle ==
    /\ rsSim = ""
    /\ rsDim = 0
    /\ rsGrids = <<>>
    /\ rsCalls = 0
    /\ rsFirst = <<>>

\* Poisson.cdf applied to an array of energies (ensembles/poisson.py): nothing
CdfIdle ==
    /\ cdfE0 = 0
    /\ cdfArg = <<>>
    /\ cdfOut = <<>>
    /\ cdfpc = "idle"

\* the numerical cumulative density of an ensemble without closed form (ensembles/_base/_manybody.py, ensembles/_rmt.py): nothing
NcdfIdle ==
    /\ ncClass = ""
    /\ ncStored = <<>>
    /\ ncIntegrations = 0
    /\ ncLog = <<>>
    /\ ncpc = "idle"

IdleButGen == StatIdle /\ ConsIdle /\ FileIdle /\ PoolIdle /\ ContIdle /\ SykIdle /\ EntIdle /\ RegIdle /\ McIdle /\ StrmIdle /\ DirIdle /\ CombIdle /\ SpacIdle /\ CdorIdle /\ SplitIdle /\ ShmIdle /\ ConcIdle /\ AliasIdle /\ RescIdle /\ CdfIdle /\ NcdfIdle
IdleButStat == GenIdle /\ ConsIdle /\ FileIdle /\ PoolIdle /\ ContIdle /\ SykIdle /\ EntIdle /\ RegIdle /\ McIdle /\ StrmIdle /\ DirIdle /\ CombIdle /\ SpacIdle /\ CdorIdle /\ SplitIdle /\ ShmIdle /\ ConcIdle /\ AliasIdle /\ RescIdle /\ CdfIdle /\ NcdfIdle
IdleButCons == GenIdle /\ StatIdle /\ FileIdle /\ PoolIdle /\ ContIdle /\ SykIdle /\ EntIdle /\ RegIdle /\ McIdle /\ StrmIdle /\ DirIdle /\ CombIdle /\ SpacIdle /\ CdorIdle /\ SplitIdle /\ ShmIdle /\ ConcIdle /\ AliasIdle /\ RescIdle /\ CdfIdle /\ NcdfIdle
IdleButFile == EnsIdle /\ GenIdle /\ StatIdle /\ ConsIdle /\ PoolIdle /\ ContIdle /\ SykIdle /\ EntIdle /\ RegIdle /\ McIdle /\ StrmIdle /\ DirIdle /\ CombIdle /\ SpacIdle /\ CdorIdle /\ SplitIdle /\ ShmIdle /\ ConcIdle /\ AliasIdle /\ RescIdle /\ CdfIdle /\ NcdfIdle
IdleButPool == EnsIdle /\ GenIdle /\ StatIdle /\ ConsIdle /\ FileIdle /\ ContIdle /\ SykIdle /\ EntIdle /\ RegIdle /\ McIdle /\ StrmIdle /\ DirIdle /\ CombIdle /\ SpacIdle /\ CdorIdle /\ SplitIdle /\ ShmIdle /\ ConcIdle /\ AliasIdle /\ RescIdle /\ CdfIdle /\ NcdfIdle
IdleButCont == EnsIdle /\ GenIdle /\ StatIdle /\ ConsIdle /\ FileIdle /\ PoolIdle /\ SykIdle /\ EntIdle /\ RegIdle /\ McIdle /\ StrmIdle /\ DirIdle /\ CombIdle /\ SpacIdle /\ CdorIdle /\ SplitIdle /\ ShmIdle /\ ConcIdle /\ AliasIdle /\ RescIdle /\ CdfIdle /\ NcdfIdle
IdleButSyk == GenIdle /\ StatIdle /\ ConsIdle /\ FileIdle /\ PoolIdle /\ ContIdle /\ EntIdle /\ RegIdle /\ McIdle /\ StrmIdle /\ DirIdle /\ CombIdle /\ SpacIdle /\ CdorIdle /\ SplitIdle /\ ShmIdle /\ ConcIdle /\ AliasIdle /\ RescIdle /\ CdfIdle /\ NcdfIdle
IdleButEnt == EnsIdle /\ GenIdle /\ StatIdle /\ ConsIdle /\ FileIdle /\ PoolIdle /\ ContIdle /\ SykIdle /\ RegIdle /\ McIdle /\ StrmIdle /\ DirIdle /\ CombIdle /\ SpacIdle /\ CdorIdle /\ SplitIdle /\ ShmIdle /\ ConcIdle /\ AliasIdle /\ RescIdle /\ CdfIdle /\ NcdfIdle
IdleButReg == EnsIdle /\ GenIdle /\ StatIdle /\ ConsIdle /\ FileIdle /\ PoolIdle /\ ContIdle /\ SykIdle /\ EntIdle /\ McIdle /\ StrmIdle /\ DirIdle /\ CombIdle /\ SpacIdle /\ CdorIdle /\ SplitIdle /\ ShmIdle /\ ConcIdle /\ AliasIdle /\ RescIdle /\ CdfIdle /\ NcdfIdle
IdleButMc == EnsIdle /\ GenIdle /\ StatIdle /\ ConsIdle /\ FileIdle /\ PoolIdle /\ ContIdle /\ SykIdle /\ EntIdle /\ RegIdle /\ StrmIdle /\ DirIdle /\ CombIdle /\ SpacIdle /\ CdorIdle /\ SplitIdle /\ ShmIdle /\ ConcIdle /\ AliasIdle /\ RescIdle /\ CdfIdle /\ NcdfIdle
IdleButStrm == EnsIdle /\ GenIdle /\ StatIdle /\ ConsIdle /\ FileIdle /\ PoolIdle /\ ContIdle /\ SykIdle /\ EntIdle /\ RegIdle /\ McIdle /\ DirIdle /\ CombIdle /\ SpacIdle /\ CdorIdle /\ SplitIdle /\ ShmIdle /\ ConcIdle /\ AliasIdle /\ RescIdle /\ CdfIdle /\ NcdfIdle
IdleButDir == EnsIdle /\ GenIdle /\ StatIdle /\ ConsIdle /\ FileIdle /\ PoolIdle /\ ContIdle /\ SykIdle /\ EntIdle /\ RegIdle /\ McIdle /\ StrmIdle /\ CombIdle /\ SpacIdle /\ CdorIdle /\ SplitIdle /\ ShmIdle /\ ConcIdle /\ AliasIdle /\ RescIdle /\ CdfIdle /\ NcdfIdle
IdleButComb == EnsIdle /\ GenIdle /\ StatIdle /\ ConsIdle /\ FileIdle /\ PoolIdle /\ ContIdle /\ SykIdle /\ EntIdle /\ RegIdle /\ McIdle /\ StrmIdle /\ DirIdle /\ SpacIdle /\ CdorIdle /\ SplitIdle /\ ShmIdle /\ ConcIdle /\ AliasIdle /\ RescIdle /\ CdfIdle /\ NcdfIdle
IdleButSpac == EnsIdle /\ GenIdle /\ StatIdle /\ ConsIdle /\ FileIdle /\ PoolIdle /\ ContIdle /\ SykIdle /\ EntIdle /\ RegIdle /\ McIdle /\ StrmIdle /\ DirIdle /\ CombIdle /\ CdorIdle /\ SplitIdle /\ ShmIdle /\ ConcIdle /\ AliasIdle /\ RescIdle /\ CdfIdle /\ NcdfIdle
IdleButCdor == EnsIdle /\ GenIdle /\ StatIdle /\ ConsIdle /\ FileIdle /\ PoolIdle /\ ContIdle /\ SykIdle /\ EntIdle /\ RegIdle /\ McIdle /\ StrmIdle /\ DirIdle /\ CombIdle /\ SpacIdle /\ SplitIdle /\ ShmIdle /\ ConcIdle /\ AliasIdle /\ RescIdle /\ CdfIdle /\ NcdfIdle
IdleButSplit == EnsIdle /\ GenIdle /\ StatIdle /\ ConsIdle /\ FileIdle /\ PoolIdle /\ ContIdle /\ SykIdle /\ EntIdle /\ RegIdle /\ McIdle /\ StrmIdle /\ DirIdle /\ CombIdle /\ SpacIdle /\ CdorIdle /\ ShmIdle /\ ConcIdle /\ AliasIdle /\ RescIdle /\ CdfIdle /\ NcdfIdle
IdleButShm == EnsIdle /\ GenIdle /\ StatIdle /\ ConsIdle /\ FileIdle /\ PoolIdle /\ ContIdle /\ SykIdle /\ EntIdle /\ RegIdle /\ McIdle /\ StrmIdle /\ DirIdle /\ CombIdle /\ SpacIdle /\ CdorIdle /\ SplitIdle /\ ConcIdle /\ AliasIdle /\ RescIdle /\ CdfIdle /\ NcdfIdle
IdleButConc == EnsIdle /\ GenIdle /\ StatIdle /\ ConsIdle /\ FileIdle /\ PoolIdle /\ ContIdle /\ SykIdle /\ EntIdle /\ RegIdle /\ McIdle /\ StrmIdle /\ DirIdle /\ CombIdle /\ SpacIdle /\ CdorIdle /\ SplitIdle /\ ShmIdle /\ AliasIdle /\ RescIdle /\ CdfIdle /\ NcdfIdle
IdleButAlias == EnsIdle /\ GenIdle /\ StatIdle /\ ConsIdle /\ FileIdle /\ PoolIdle /\ ContIdle /\ SykIdle /\ EntIdle /\ RegIdle /\ McIdle /\ StrmIdle /\ DirIdle /\ CombIdle /\ SpacIdle /\ CdorIdle /\ SplitIdle /\ ShmIdle /\ ConcIdle /\ RescIdle /\ CdfIdle /\ NcdfIdle
IdleButResc == EnsIdle /\ GenIdle /\ StatIdle /\ ConsIdle /\ FileIdle /\ PoolIdle /\ ContIdle /\ SykIdle /\ EntIdle /\ RegIdle /\ McIdle /\ StrmIdle /\ DirIdle /\ CombIdle /\ SpacIdle /\ CdorIdle /\ SplitIdle /\ ShmIdle /\ ConcIdle /\ AliasIdle /\ CdfIdle /\ NcdfIdle
IdleButCdf == EnsIdle /\ GenIdle /\ StatIdle /\ ConsIdle /\ FileIdle /\ PoolIdle /\ ContIdle /\ SykIdle /\ EntIdle /\ RegIdle /\ McIdle /\ StrmIdle /\ DirIdle /\ CombIdle /\ SpacIdle /\ CdorIdle /\ SplitIdle /\ ShmIdle /\ ConcIdle /\ AliasIdle /\ RescIdle /\ NcdfIdle
IdleButNcdf == EnsIdle /\ GenIdle /\ StatIdle /\ ConsIdle /\ FileIdle /\ PoolIdle /\ ContIdle /\ SykIdle /\ EntIdle /\ RegIdle /\ McIdle /\ StrmIdle /\ DirIdle /\ CombIdle /\ SpacIdle /\ CdorIdle /\ SplitIdle /\ ShmIdle /\ ConcIdle /\ AliasIdle /\ RescIdle /\ CdfIdle

----------------------------------------------------------------------------
(* Bounds of the model *)

\* largest number of Majoranas N
MaxN == 6
\* random draws are taken from 0..MaxRand
MaxRand == 1
\* a configuration (ensemble, dim) is explored when one realization consumes
\* at most MaxDraws random numbers
MaxDraws == 12

RandVals == 0..MaxRand

----------------------------------------------------------------------------
(* Complex numbers and matrices *)

CZero == <<0, 0>>
CAdd(a, b) == <<a[1] + b[1], a[2] + b[2]>>
CConj(a) == <<a[1], -a[2]>>

Idx(d) == 0..(d - 1)

ZeroMatrix(d) == [p \in Idx(d) \X Idx(d) |-> CZero]

Transpose(H, d) == [p \in Idx(d) \X Idx(d) |-> H[<<p[2], p[1]>>]]

\* H[r, c0:c1] += f   (f indexed from 0, one entry per element of the slice)
RowAdd(H, d, r, c0, c1, f) ==
    [p \in Idx(d) \X Idx(d) |->
        IF p[1] = r /\ c0 <= p[2] /\ p[2] < c1
        THEN CAdd(H[p], f[p[2] - c0]) ELSE H[p]]

\* H[r0:r1, c] += f
ColAdd(H, d, r0, r1, c, f) ==
    [p \in Idx(d) \X Idx(d) |->
        IF p[2] = c /\ r0 <= p[1] /\ p[1] < r1
        THEN CAdd(H[p], f[p[1] - r0]) ELSE H[p]]

IsHermitian(H, d) ==
    \A i \in Idx(d) : \A j \in Idx(d) : H[<<i, j>>] = CConj(H[<<j, i>>])

----------------------------------------------------------------------------
(* Ensemble parameters *)

GaussianClasses == {"GUE", "GSE", "BdGC", "BdGD", "GOE"}

\* ManyBodyEnsemble.__dim_default: 2 ** (N // 2 - 1)
RECURSIVE Pow2(_)
Pow2(k) == IF k <= 0 THEN 1 ELSE 2 * Pow2(k - 1)

DimOfN(n) == Pow2((n \div 2) - 1)

\* the random numbers one realization consumes: <<row, position, stream>>;
\* streams 1, 2 are the first real_rands / imag_rands of the loop body,
\* streams 3, 4 the second pair
GUEDraws(d) ==
    {t \in Idx(d) \X Idx(d) \X {1, 2} : t[2] < d - t[1]}

GSEDraws(d) ==
    {t \in Idx(d \div 2) \X Idx(d \div 2) \X {1, 2} : t[2] < (d \div 2) - t[1]}
    \cup
    {t \in Idx(d \div 2) \X Idx(d \div 2) \X {3, 4} :
        1 <= t[2] /\ t[2] < (d \div 2) - t[1]}

BdGCDraws(d) ==
    {t \in Idx(d \div 2) \X Idx(d \div 2) \X {1, 2, 3, 4} :
        t[2] < (d \div 2) - t[1]}

BdGDDraws(d) ==
    {t \in Idx(d) \X Idx(d) \X {2} : 1 <= t[2] /\ t[2] < d - t[1]}

GOEDraws(d) == Idx(d) \X Idx(d)

PoissonDraws(d) == Idx(d)

DrawsOf(e, d) ==
    CASE e = "GUE" -> GUEDraws(d)
      [] e = "GSE" -> GSEDraws(d)
      [] e = "BdGC" -> BdGCDraws(d)
      [] e = "BdGD" -> BdGDDraws(d)
      [] e = "GOE" -> GOEDraws(d)
      [] e = "Poisson" -> PoissonDraws(d)

----------------------------------------------------------------------------
(* GUE.randm *)

GUEBody(H, d, i, rnd) ==
    LET n == d - i
        up == [k \in Idx(n) |-> <<rnd[<<i, k, 1>>], rnd[<<i, k, 2>>]>>]
        dn == [k \in Idx(n) |-> <<rnd[<<i, k, 1>>], -rnd[<<i, k, 2>>]>>]
        H1 == RowAdd(H, d, i, i, d, up)
    IN  ColAdd(H1, d, i, d, i, dn)

RECURSIVE GUELoop(_, _, _, _)
GUELoop(H, d, i, rnd) ==
    IF i >= d THEN H ELSE GUELoop(GUEBody(H, d, i, rnd), d, i + 1, rnd)

----------------------------------------------------------------------------
(* BdGD.randm *)

BdGDBody(H, d, i, rnd) ==
    LET n == d - i
        up == [k \in Idx(n) |-> <<0, IF k = 0 THEN 0 ELSE rnd[<<i, k, 2>>]>>]
        dn == [k \in Idx(n) |-> <<0, IF k = 0 THEN 0 ELSE -rnd[<<i, k, 2>>]>>]
        H1 == RowAdd(H, d, i, i, d, up)
    IN  ColAdd(H1, d, i, d, i, dn)

RECURSIVE BdGDLoop(_, _, _, _)
BdGDLoop(H, d, i, rnd) ==
    IF i >= d THEN H ELSE BdGDLoop(BdGDBody(H, d, i, rnd), d, i + 1, rnd)

----------------------------------------------------------------------------
(* GSE.randm *)

\* the vector [k |-> <<sr * re[k], si * im[k]>>] built from streams a (real
\* parts) and b (imaginary parts) of row i; with skip, position 0 is the zero
\* the code leaves there (zeros(n); [1:] += standard_normal(n - 1))
Vec(rnd, i, n, a, b, sr, si, skip) ==
    [k \in Idx(n) |->
        IF skip /\ k = 0 THEN CZero
        ELSE <<sr * rnd[<<i, k, a>>], si * rnd[<<i, k, b>>]>>]

GSEBody(H, d, i, rnd) ==
    LET b == d \div 2
        n == b - i
        \* top-left block: GUE
        H1 == RowAdd(H, d, i, i, b, Vec(rnd, i, n, 1, 2, 1, 1, FALSE))
        H2 == ColAdd(H1, d, i, b, i, Vec(rnd, i, n, 1, 2, 1, -1, FALSE))
        \* bottom-right block: conjugate of the top-left block
        H3 == RowAdd(H2, d, b + i, b + i, d, Vec(rnd, i, n, 1, 2, 1, -1, FALSE))
        H4 == ColAdd(H3, d, b + i, d, b + i, Vec(rnd, i, n, 1, 2, 1, 1, FALSE))
        \* top-right block: complex antisymmetric
        H5 == RowAdd(H4, d, i, b + i, d, Vec(rnd, i, n, 3, 4, 1, 1, TRUE))
        H6 == ColAdd(H5, d, i, b, b + i, Vec(rnd, i, n, 3, 4, -1, -1, TRUE))
        \* bottom-left block: negative conjugate of the top-right block
        H7 == RowAdd(H6, d, b + i, i, b, Vec(rnd, i, n, 3, 4, -1, 1, TRUE))
    IN  ColAdd(H7, d, b + i, d, i, Vec(rnd, i, n, 3, 4, 1, -1, TRUE))

RECURSIVE GSELoop(_, _, _, _)
GSELoop(H, d, i, rnd) ==
    IF i >= d \div 2 THEN H ELSE GSELoop(GSEBody(H, d, i, rnd), d, i + 1, rnd)

----------------------------------------------------------------------------
(* BdGC.randm *)

\* BdGCBody with the bottom-left block written without the conjugation
BdGCBodyNoConj(H, d, i, rnd) ==
    LET b == d \div 2
        n == b - i
        H1 == RowAdd(H, d, i, i, b, Vec(rnd, i, n, 1, 2, 1, 1, FALSE))
        H2 == ColAdd(H1, d, i, b, i, Vec(rnd, i, n, 1, 2, 1, -1, FALSE))
        H3 == RowAdd(H2, d, b + i, b + i, d, Vec(rnd, i, n, 1, 2, -1, 1, FALSE))
        H4 == ColAdd(H3, d, b + i, d, b + i, Vec(rnd, i, n, 1, 2, -1, -1, FALSE))
        H5 == RowAdd(H4, d, i, b + i, d, Vec(rnd, i, n, 3, 4, 1, 1, FALSE))
        H6 == ColAdd(H5, d, i, b, b + i, Vec(rnd, i, n, 3, 4, 1, 1, FALSE))
        H7 == RowAdd(H6, d, b + i, i, b, Vec(rnd, i, n, 3, 4, 1, 1, FALSE))
    IN  ColAdd(H7, d, b + i, d, i, Vec(rnd, i, n, 3, 4, 1, 1, FALSE))

BdGCBody(H, d, i, rnd) ==
    LET b == d \div 2
        n == b - i
        \* top-left block: GUE
        H1 == RowAdd(H, d, i, i, b, Vec(rnd, i, n, 1, 2, 1, 1, FALSE))
        H2 == ColAdd(H1, d, i, b, i, Vec(rnd, i, n, 1, 2, 1, -1, FALSE))
        \* bottom-right block: negative conjugate of the top-left block
        H3 == RowAdd(H2, d, b + i, b + i, d, Vec(rnd, i, n, 1, 2, -1, 1, FALSE))
        H4 == ColAdd(H3, d, b + i, d, b + i, Vec(rnd, i, n, 1, 2, -1, -1, FALSE))
        \* top-right block: complex symmetric
        H5 == RowAdd(H4, d, i, b + i, d, Vec(rnd, i, n, 3, 4, 1, 1, FALSE))
        H6 == ColAdd(H5, d, i, b, b + i, Vec(rnd, i, n, 3, 4, 1, 1, FALSE))
        \* bottom-left block: conjugate of the top-right block
        H7 == RowAdd(H6, d, b + i, i, b, Vec(rnd, i, n, 3, 4, 1, -1, FALSE))
    IN  ColAdd(H7, d, b + i, d, i, Vec(rnd, i, n, 3, 4, 1, -1, FALSE))

RECURSIVE BdGCLoop(_, _, _, _)
BdGCLoop(H, d, i, rnd) ==
    IF i >= d \div 2 THEN H ELSE BdGCLoop(BdGCBody(H, d, i, rnd), d, i + 1, rnd)

----------------------------------------------------------------------------
(* GOE.generate: H.real = X; H.imag = 0; H = H + H.T; H *= sigma / 2 *)

GOEMatrix(d, rnd) ==
    LET X == [p \in Idx(d) \X Idx(d) |-> <<rnd[p], 0>>]
        XT == Transpose(X, d)
    IN  [p \in Idx(d) \X Idx(d) |-> CAdd(X[p], XT[p])]

----------------------------------------------------------------------------
(* Poisson.generate: M = U D U^dagger, H += M, entries below the threshold *)
(* are zeroed.  U ranges over the permutation matrices (exact unitaries),  *)
(* D over the diagonal matrices of drawn eigenvalues.                      *)

ClipThreshold == 1

Clip(x) == IF -ClipThreshold < x /\ x < ClipThreshold THEN 0 ELSE x

Perms(d) == {p \in [Idx(d) -> Idx(d)] : \A a, b \in Idx(d) : p[a] = p[b] => a = b}

\* (U D U^dagger)[r, c] = sum_k U[r,k] eig[k] conj(U[c,k]), with U[r,k] = 1 iff r = p[k]
PoissonM(d, p, eig) ==
    [q \in Idx(d) \X Idx(d) |->
        IF q[1] = q[2]
        THEN <<eig[CHOOSE k \in Idx(d) : p[k] = q[1]], 0>>
        ELSE CZero]

PoissonMatrix(H, d, p, eig) ==
    LET M == PoissonM(d, p, eig)
    IN  [q \in Idx(d) \X Idx(d) |->
            <<Clip(H[q][1] + M[q][1]), Clip(H[q][2] + M[q][2])>>]

----------------------------------------------------------------------------
(* One call of a generator by a caller *)

\* the heap entry of an object that does not exist
NoMatrix == <<>>

\* "if offset is None: H = np.zeros(...) else: H = offset"
\* (gue.py, gse.py, bdgc.py, bdgd.py, poisson.py)
BindOffset(off) == IF off THEN "offset" ELSE "fresh"

\* GOE.generate never reads its parameter: H = np.empty((dim, dim))
BindGOE(off) == "fresh"

\* the matrix the generator starts from: the caller's, or np.zeros((dim, dim))
StartMatrix(off, b, d) == IF off THEN b["offset"] ELSE ZeroMatrix(d)

GenConfigs ==
    {c \in (GaussianClasses \cup {"Poisson"}) \X (4..MaxN) :
        /\ c[2] % 2 = 0
        /\ Cardinality(DrawsOf(c[1], DimOfN(c[2]))) <= MaxDraws}

GenInit ==
    /\ \E c \in GenConfigs : ens = c[1] /\ N = c[2] /\ dim = DimOfN(c[2])
    /\ offset \in BOOLEAN
    /\ bufs = [o \in {"offset", "fresh"} |->
                 IF o = "offset" /\ offset THEN ZeroMatrix(dim) ELSE NoMatrix]
    /\ ret = "none"
    /\ gpc = "call"
    /\ IdleButGen

\* each randm binds H, runs its loop over one drawing and returns H
GUERandm ==
    /\ gpc = "call" /\ ens = "GUE"
    /\ \E rnd \in [GUEDraws(dim) -> RandVals] :
         LET obj == BindOffset(offset)
         IN  /\ bufs' = [bufs EXCEPT ![obj] =
                           GUELoop(StartMatrix(offset, bufs, dim), dim, 0, rnd)]
             /\ ret' = obj
    /\ gpc' = "done"
    /\ UNCHANGED <<ensVars, offset, notGen>>

GSERandm ==
    /\ gpc = "call" /\ ens = "GSE"
    /\ \E rnd \in [GSEDraws(dim) -> RandVals] :
         LET obj == BindOffset(offset)
         IN  /\ bufs' = [bufs EXCEPT ![obj] =
                           GSELoop(StartMatrix(offset, bufs, dim), dim, 0, rnd)]
             /\ ret' = obj
    /\ gpc' = "done"
    /\ UNCHANGED <<ensVars, offset, notGen>>

BdGCRandm ==
    /\ gpc = "call" /\ ens = "BdGC"
    /\ \E rnd \in [BdGCDraws(dim) -> RandVals] :
         LET obj == BindOffset(offset)
         IN  /\ bufs' = [bufs EXCEPT ![obj] =
                           BdGCLoop(StartMatrix(offset, bufs, dim), dim, 0, rnd)]
             /\ ret' = obj
    /\ gpc' = "done"
    /\ UNCHANGED <<ensVars, offset, notGen>>

BdGDRandm ==
    /\ gpc = "call" /\ ens = "BdGD"
    /\ \E rnd \in [BdGDDraws(dim) -> RandVals] :
         LET obj == BindOffset(offset)
         IN  /\ bufs' = [bufs EXCEPT ![obj] =
                           BdGDLoop(StartMatrix(offset, bufs, dim), dim, 0, rnd)]
             /\ ret' = obj
    /\ gpc' = "done"
    /\ UNCHANGED <<ensVars, offset, notGen>>

GOEGenerate ==
    /\ gpc = "call" /\ ens = "GOE"
    /\ \E rnd \in [GOEDraws(dim) -> RandVals] :
         LET obj == BindGOE(offset)
         IN  /\ bufs' = [bufs EXCEPT ![obj] = GOEMatrix(dim, rnd)]
             /\ ret' = obj
    /\ gpc' = "done"
    /\ UNCHANGED <<ensVars, offset, notGen>>

PoissonGenerate ==
    /\ gpc = "call" /\ ens = "Poisson"
    /\ \E p \in Perms(dim) : \E eig \in [PoissonDraws(dim) -> RandVals] :
         LET obj == BindOffset(offset)
         IN  /\ bufs' = [bufs EXCEPT ![obj] =
                           PoissonMatrix(StartMatrix(offset, bufs, dim), dim, p, eig)]
             /\ ret' = obj
    /\ gpc' = "done"
    /\ UNCHANGED <<ensVars, offset, notGen>>

GenNext ==
    \/ GUERandm
    \/ GSERandm
    \/ BdGCRandm
    \/ BdGDRandm
    \/ GOEGenerate
    \/ PoissonGenerate

SpecGen == GenInit /\ [][GenNext]_vars

----------------------------------------------------------------------------
(* Properties of the generators *)

\* C1: the matrix every Gaussian-class generator (GUE, GSE, BdG(C), BdG(D),
\* GOE) returns, built on zeros, is Hermitian: entry (i,j) is the complex
\* conjugate of entry (j,i) for all i, j, whatever the draws
C1_GaussianHermitian ==
    (gpc = "done" /\ ens \in GaussianClasses) => IsHermitian(bufs[ret], dim)

\* a BdG(C) matrix of dimension 4 whose off-diagonal blocks carry an imaginary part
C1_Witness ==
    /\ gpc = "done" /\ ens = "BdGC" /\ dim = 4
    /\ bufs[ret][<<0, 3>>][2] # 0
    /\ bufs[ret][<<0, 1>>][2] # 0

\* C2: a generator called with a caller-provided buffer returns that very
\* object; called without one it returns the matrix it allocated
C2_ReturnsCallerBuffer ==
    gpc = "done" => ret = (IF offset THEN "offset" ELSE "fresh")

----------------------------------------------------------------------------
(* Exact arithmetic for the averages of the spectral statistics *)

Abs(x) == IF x < 0 THEN -x ELSE x

RECURSIVE Gcd(_, _)
Gcd(a, b) == IF b = 0 THEN a ELSE Gcd(b, a % b)

\* the result of a float division by zero (numpy: nan or inf, with a warning)
NaN == <<0, 0>>

IsFinite(a) == a[2] # 0

\* n / d in lowest terms
Rat(n, d) ==
    IF d = 0 THEN NaN
    ELSE LET g == Gcd(Abs(n), Abs(d))
             s == IF d < 0 THEN -1 ELSE 1
         IN  <<(s * n) \div g, (s * d) \div g>>

RInt(n) == <<n, 1>>
RAdd(a, b) ==
    IF IsFinite(a) /\ IsFinite(b) THEN Rat(a[1] * b[2] + b[1] * a[2], a[2] * b[2]) ELSE NaN
\* a + b where the code subtracts
AddNotSub(a, b) == RAdd(a, b)
RSub(a, b) ==
    IF IsFinite(a) /\ IsFinite(b) THEN Rat(a[1] * b[2] - b[1] * a[2], a[2] * b[2]) ELSE NaN
RMul(a, b) ==
    IF IsFinite(a) /\ IsFinite(b) THEN Rat(a[1] * b[1], a[2] * b[2]) ELSE NaN
RDiv(a, b) ==
    IF IsFinite(a) /\ IsFinite(b) THEN Rat(a[1] * b[2], a[2] * b[1]) ELSE NaN

\* comparisons of floats: every comparison with nan is False
REq(a, b) == IsFinite(a) /\ IsFinite(b) /\ a[1] * b[2] = b[1] * a[2]
RLeq(a, b) == IsFinite(a) /\ IsFinite(b) /\ a[1] * b[2] <= b[1] * a[2]

\* complex numbers <<re, im>> with rational parts
CRZero == <<RInt(0), RInt(0)>>
CRAdd(a, b) == <<RAdd(a[1], b[1]), RAdd(a[2], b[2])>>
CRDiv(a, r) == <<RDiv(a[1], r), RDiv(a[2], r)>>
\* np.abs(z) ** 2
CRAbs2(a) == RAdd(RMul(a[1], a[1]), RMul(a[2], a[2]))

RECURSIVE RSum(_, _)
\* np.sum over the first n entries of a sequence of rationals
RSum(f, n) == IF n = 0 THEN RInt(0) ELSE RAdd(RSum(f, n - 1), f[n])

----------------------------------------------------------------------------
(* Spectral statistics: the functions of simulations/spectral_simulation.py *)

\* largest number of realizations of a run
MaxRealizs == 2
\* eigenvalues are k * E0 with k in -MaxLevel..MaxLevel
MaxLevel == 2
\* an ensemble is explored when it has at most MaxSpectra different spectra
MaxSpectra == 15
\* largest number of bins of a histogram
MaxBins == 2
\* largest (dimensionless) bin width
MaxWidth == 2
\* number of times of the form factors
NumTimes == 2

\* ManyBodyEnsemble subclasses by degeneracy (all but GSE behave as GUE here)
StatClasses == {"GUE", "GSE"}

\* ManyBodyEnsemble.degeneracy
Degeneracy(e) == IF e = "GSE" THEN 2 ELSE 1

\* energies are integers in units of the global mean level spacing
\* 2 * E0 / dim, so that E0 = dim / 2
E0(d) == d \div 2
MeanSpacing(d) == (2 * E0(d)) \div d

\* what eigvals_stream can yield: dim eigenvalues in ascending order
\* (eigvalsh), every level Degeneracy times
Spectra(e, d) ==
    {s \in [1..d -> {k * E0(d) : k \in -MaxLevel..MaxLevel}] :
        /\ \A j \in 1..(d - 1) : s[j] <= s[j + 1]
        /\ Degeneracy(e) = 2 => \A j \in 1..(d \div 2) : s[2 * j - 1] = s[2 * j]}

\* GaussianEnsemble.cdf clips E / E0 to [-1, 1]; cdf(-E0) = 0, cdf(0) = 1/2,
\* cdf(E0) = 1.  ManyBodyEnsemble.unfold: dim * (cdf(E) - cdf(0))
UnfoldLevel(E, d) ==
    IF E <= -E0(d) THEN -(d \div 2) ELSE IF E >= E0(d) THEN d \div 2 ELSE 0
Unfold(s, d) == [j \in 1..Len(s) |-> UnfoldLevel(s[j], d)]

\* np.histogram(sample, bins=edges): bins are [e_i, e_i+1), the last one closed
Histogram(sample, edges) ==
    [i \in 1..(Len(edges) - 1) |->
        Cardinality({j \in 1..Len(sample) :
            /\ edges[i] <= sample[j]
            /\ \/ sample[j] < edges[i + 1]
               \/ i = Len(edges) - 1 /\ sample[j] = edges[i + 1]})]

spectral_histogram(levels, edges) == Histogram(levels, edges)

\* np.diff
Diff(s) == [j \in 1..(Len(s) - 1) |-> s[j + 1] - s[j]]
\* s[0::g]: the stride started at the first spacing
StridedFromStart(s, g) == [k \in 1..((Len(s) + g - 1) \div g) |-> s[1 + (k - 1) * g]]
\* s[1::g]
Strided(s, g) == [k \in 1..((Len(s) + g - 2) \div g) |-> s[2 + (k - 1) * g]]
\* np.repeat(s, g)
Repeat(s, g) == [k \in 1..(Len(s) * g) |-> s[((k - 1) \div g) + 1]]

spacings_histogram(levels, edges, degen) ==
    LET spacings == Diff(levels)
    IN  Histogram(IF degen > 1 THEN Repeat(Strided(spacings, degen), degen)
                  ELSE spacings, edges)

\* np.exp(-1j * E * t) with E * t counted in quarter turns
Rot(k) ==
    CASE k % 4 = 0 -> <<1, 0>>
      [] k % 4 = 1 -> <<0, -1>>
      [] k % 4 = 2 -> <<-1, 0>>
      [] OTHER     -> <<0, 1>>

RECURSIVE ExpSum(_, _, _)
\* np.sum(exp_terms, axis=0) over the first n levels, at time t
ExpSum(levels, t, n) ==
    IF n = 0 THEN CZero ELSE CAdd(ExpSum(levels, t, n - 1), Rot(levels[n] * t))

\* sff_moments: <<mu_1, mu_2>>
sff_moments(levels, times) ==
    LET d == Len(levels)
        m1 == [k \in 1..Len(times) |->
                 LET z == ExpSum(levels, times[k], d)
                 IN  <<Rat(z[1], d), Rat(z[2], d)>>]
    IN  <<m1, [k \in 1..Len(times) |-> CRAbs2(m1[k])]>>

\* the times of the form factors after rescaling, in quarter turns per
\* unit of energy, for the raw and the unfolded spectrum
Families == {"raw", "unf"}
Times(f) == [k \in 1..NumTimes |-> IF f = "raw" THEN k ELSE k + 1]

\* the four histograms; their data objects are built with one configuration
HistKeys == {"spec", "unf_spec", "spac", "unf_spac"}
Kind(h) == IF h \in {"spec", "unf_spec"} THEN "spec" ELSE "spac"
Family(h) == IF h \in {"spec", "spac"} THEN "raw" ELSE "unf"

BinStarts == {-1, 3}
BinConfigs == BinStarts \X (1..MaxWidth) \X (1..MaxBins)

\* np.linspace(Ei, Ef, num_bins + 1) with Ef = Ei + num_bins * width
Linspace(c) == [k \in 1..(c[3] + 1) |-> c[1] + (k - 1) * c[2]]

\* bins[:] *= f
Scale(b, f) == [k \in 1..Len(b) |-> b[k] * f]

\* np.sum(hist * np.diff(bins))
Integral(h, b) == RSum([i \in 1..Len(h) |-> RMul(h[i], RInt(b[i + 1] - b[i]))], Len(h))

\* hist / np.sum(hist) : a normalisation that forgets the bin widths
NormalizeByCount(h, b) ==
    LET tot == RSum(h, Len(h)) IN [i \in 1..Len(h) |-> RDiv(h[i], tot)]

\* hist[:] /= np.sum(hist * np.diff(bins))
Normalize(h, b) ==
    LET tot == Integral(h, b) IN [i \in 1..Len(h) |-> RDiv(h[i], tot)]

\* the sample a histogram takes from one spectrum
Sample(h, levels, e, d) ==
    LET vals == IF Family(h) = "raw" THEN levels ELSE Unfold(levels, d)
    IN  IF Kind(h) = "spec" THEN spectral_histogram(vals, bins[h])
        ELSE spacings_histogram(vals, bins[h], Degeneracy(e))

----------------------------------------------------------------------------
(* Spectral statistics: SpectralStatistics.run and the analysis script *)

StatConfigs ==
    {c \in StatClasses \X (4..MaxN) :
        /\ c[2] % 2 = 0
        /\ Cardinality(Spectra(c[1], DimOfN(c[2]))) <= MaxSpectra}

\* accumulators that start at one
OnesReals == [k \in 1..NumTimes |-> RInt(1)]

ZeroReals == [k \in 1..NumTimes |-> RInt(0)]
ZeroComplexes == [k \in 1..NumTimes |-> CRZero]

\* a SpectralStatistics object with its zero-initialised data objects
StatInit ==
    /\ \E c \in StatConfigs : ens = c[1] /\ N = c[2] /\ dim = DimOfN(c[2])
    /\ realizs \in 1..MaxRealizs
    /\ cfg \in BinConfigs
    /\ bins = [h \in HistKeys |-> Linspace(cfg)]
    /\ hist = [h \in HistKeys |-> [i \in 1..cfg[3] |-> RInt(0)]]
    /\ mu_1 = [f \in Families |-> ZeroComplexes]
    /\ mu_2 = [f \in Families |-> ZeroReals]
    /\ sff = [f \in Families |-> ZeroReals]
    /\ csff = [f \in Families |-> ZeroReals]
    /\ spectra = <<>>
    /\ spc = "new"
    /\ IdleButStat

\* realize_monte_carlo, before its loop: the bins are put on their scales
ScaleBins ==
    /\ spc = "new"
    /\ bins' = [h \in HistKeys |->
                  CASE h = "spec"     -> Scale(bins[h], E0(dim))
                    [] h = "unf_spec" -> Scale(bins[h], dim \div 2)
                    [] h = "spac"     -> Scale(bins[h], MeanSpacing(dim))
                    [] OTHER          -> bins[h]]
    /\ spc' = "loop"
    /\ UNCHANGED <<ensVars, realizs, cfg, hist, mu_1, mu_2, sff, csff, spectra, notStat>>

\* realize_monte_carlo, one iteration over eigvals_stream(realizs)
Realize ==
    /\ spc = "loop"
    /\ Len(spectra) < realizs
    /\ \E eigvals \in Spectra(ens, dim) :
         LET vals(f) == IF f = "raw" THEN eigvals ELSE Unfold(eigvals, dim)
             mom(f) == sff_moments(vals(f), Times(f))
         IN  /\ hist' = [h \in HistKeys |->
                           [i \in 1..Len(hist[h]) |->
                              RAdd(hist[h][i], RInt(Sample(h, eigvals, ens, dim)[i]))]]
             /\ mu_1' = [f \in Families |->
                           [k \in 1..NumTimes |-> CRAdd(mu_1[f][k], mom(f)[1][k])]]
             /\ mu_2' = [f \in Families |->
                           [k \in 1..NumTimes |-> RAdd(mu_2[f][k], mom(f)[2][k])]]
             /\ spectra' = Append(spectra, eigvals)
    /\ UNCHANGED <<ensVars, realizs, cfg, bins, sff, csff, spc, notStat>>

\* SpectralStatistics.calculate_statistics
CalculateStatistics ==
    /\ spc = "loop"
    /\ Len(spectra) = realizs
    /\ hist' = [h \in HistKeys |-> Normalize(hist[h], bins[h])]
    /\ mu_1' = [f \in Families |->
                  [k \in 1..NumTimes |-> CRDiv(mu_1[f][k], RInt(realizs))]]
    /\ mu_2' = [f \in Families |->
                  [k \in 1..NumTimes |-> RDiv(mu_2[f][k], RInt(realizs))]]
    /\ csff' = [f \in Families |->
                  [k \in 1..NumTimes |-> RSub(sff[f][k], CRAbs2(mu_1'[f][k]))]]
    /\ spc' = "calculated"
    /\ UNCHANGED <<ensVars, realizs, cfg, bins, sff, spectra, notStat>>

\* analyses/spectral_statistics.py main, on the archive of one run
AnalysisMain ==
    /\ spc = "loop"
    /\ Len(spectra) = realizs
    /\ hist' = [h \in HistKeys |-> Normalize(hist[h], bins[h])]
    /\ sff' = [f \in Families |->
                 [k \in 1..NumTimes |-> RDiv(mu_2[f][k], RInt(realizs))]]
    /\ csff' = [f \in Families |->
                  [k \in 1..NumTimes |->
                     RSub(sff'[f][k],
                          RDiv(CRAbs2(mu_1[f][k]), RInt(realizs * realizs)))]]
    /\ spc' = "analysed"
    /\ UNCHANGED <<ensVars, realizs, cfg, bins, mu_1, mu_2, spectra, notStat>>

\* SpectralStatistics.run after calculate_statistics: the output directory is
\* made and save_data and save_plots are called; the data objects are left
\* as they are
SaveRun ==
    /\ spc = "calculated"
    /\ spc' = "saved"
    /\ UNCHANGED <<ensVars, realizs, cfg, bins, hist, mu_1, mu_2, sff, csff, spectra, notStat>>

StatNext ==
    \/ ScaleBins
    \/ Realize
    \/ CalculateStatistics
    \/ AnalysisMain
    \/ SaveRun

SpecStat == StatInit /\ [][StatNext]_vars

----------------------------------------------------------------------------
(* Properties of the spectral statistics *)

PostProcessed == spc \in {"calculated", "analysed"}

RECURSIVE SumMu1(_, _, _)
\* the sum over the first n realizations of the per-realization mu_1[k]
SumMu1(f, k, n) ==
    IF n = 0 THEN CRZero
    ELSE LET v == IF f = "raw" THEN spectra[n] ELSE Unfold(spectra[n], dim)
         IN  CRAdd(SumMu1(f, k, n - 1), sff_moments(v, Times(f))[1][k])

RECURSIVE SumMu2(_, _, _)
\* the sum over the first n realizations of the per-realization mu_2[k]
SumMu2(f, k, n) ==
    IF n = 0 THEN RInt(0)
    ELSE LET v == IF f = "raw" THEN spectra[n] ELSE Unfold(spectra[n], dim)
         IN  RAdd(SumMu2(f, k, n - 1), sff_moments(v, Times(f))[2][k])

\* C3: after post-processing a run of R realizations, sff[t] is the sum of
\* the per-realization second moments divided by R, and csff[t] is sff[t]
\* minus |sum of the per-realization first moments|^2 / R^2, for the raw
\* and the unfolded arrays
C3_FormFactorFormulas ==
    PostProcessed =>
        \A f \in Families : \A k \in 1..NumTimes :
            /\ REq(sff[f][k], RDiv(SumMu2(f, k, realizs), RInt(realizs)))
            /\ REq(csff[f][k],
                   RSub(sff[f][k],
                        RDiv(CRAbs2(SumMu1(f, k, realizs)), RInt(realizs * realizs))))

\* C4: after post-processing sff[t] >= csff[t] at every time index
C4_SffAtLeastCsff ==
    PostProcessed =>
        \A f \in Families : \A k \in 1..NumTimes : RLeq(csff[f][k], sff[f][k])

\* an analysed run of two realizations whose connected form factor is
\* non-zero and strictly below the form factor
C4_Witness ==
    /\ spc = "analysed" /\ realizs = 2
    /\ ~REq(csff["raw"][1], RInt(0))
    /\ ~REq(csff["raw"][1], sff["raw"][1])

\* the number of samples the bins of histogram h caught over the first n spectra
RECURSIVE Caught(_, _)
Caught(h, n) ==
    IF n = 0 THEN 0
    ELSE LET c == Sample(h, spectra[n], ens, dim)
         IN  Caught(h, n - 1) + RSum([i \in 1..Len(c) |-> RInt(c[i])], Len(c))[1]

----------------------------------------------------------------------------
(* Construction of an ensemble object *)

\* constructor arguments N range over -1..(MaxN + 1)
\* explicit dimensions range over -1..MaxDimArg
MaxDimArg == 4
\* q ranges over 0..MaxQ
MaxQ == 5
\* operations performed on one object
MaxCalls == 2

\* an optional argument: None, or a value
None == <<>>
Some(v) == <<v>>
Val(o) == o[1]

\* the constructors: the attrs classes Ensemble (base/ensemble.py) and
\* ManyBodyEnsemble (_base/_manybody.py), the classes RMT and SYK
Constructors == {"Ensemble", "ManyBodyEnsemble", "RMT", "SYK"}

\* the keyword arguments a constructor accepts
Accepts(c) ==
    CASE c = "Ensemble"         -> {"dim"}
      [] c = "ManyBodyEnsemble" -> {"N"}      \* dim is a field with init=False
      [] c = "RMT"              -> {"N", "dim"}
      [] OTHER                  -> {"N", "q"}

\* Ensemble.dim: validator=gt(0); TRUE iff it raises
dim_validator(value) == ~(value > 0)

\* ManyBodyEnsemble.N: validator=gt(2) and __N_validator; TRUE iff one raises
N_validator(value) == ~(value > 2) \/ value % 2 # 0

\* RMT._check_ensemble without the comparison of dim with N
CheckWithoutDim(n, d) ==
    IF n # None THEN Val(n) < 1 \/ Val(n) % 2 # 0
    ELSE IF d # None THEN Val(d) < 1 ELSE TRUE

\* RMT._check_ensemble on the attributes _N, _dim; TRUE iff it raises
check_ensemble(n, d) ==
    IF n # None
    THEN \/ Val(n) < 1 \/ Val(n) % 2 # 0
         \/ d # None /\ Val(d) # Pow2((Val(n) \div 2) - 1)
    ELSE IF d # None THEN Val(d) < 1 ELSE TRUE

\* SYK._check_ensemble without the checks of q
CheckWithoutQ(qq, n, d) == check_ensemble(n, d)

\* SYK._check_ensemble; TRUE iff it raises
SYK_check_ensemble(qq, n, d) ==
    \/ check_ensemble(n, d)
    \/ qq = None
    \/ Val(qq) < 2 \/ Val(qq) % 2 # 0
    \/ Val(n) <= Val(qq)

\* TRUE iff the constructor call raises
Raises(c, kw) ==
    \/ \E a \in {"N", "dim", "q"} \ Accepts(c) : kw[a] # None   \* TypeError
    \/ CASE c = "Ensemble" ->
              kw.dim = None \/ dim_validator(Val(kw.dim))
         [] c = "ManyBodyEnsemble" ->
              kw.N = None \/ N_validator(Val(kw.N))
         [] c = "RMT" ->
              \* self._E0 = self.N * self.J / 2 comes first
              kw.N = None \/ check_ensemble(kw.N, kw.dim)
         [] OTHER ->
              \* the suppression factor is computed from q and N first
              kw.q = None \/ kw.N = None \/ SYK_check_ensemble(kw.q, kw.N, kw.dim)

OptArgs(S) == {None} \cup {Some(v) : v \in S}

\* a constructor call about to be made
ConsInit ==
    /\ ens \in Constructors
    /\ kwargs \in [N : OptArgs(-1..(MaxN + 1)),
                   dim : OptArgs(-1..MaxDimArg),
                   q : OptArgs(0..MaxQ)]
    /\ N = 0
    /\ dim = 0
    /\ qParam = 0
    /\ cpc = "new"
    /\ calls = 0
    /\ lastop = "none"
    /\ IdleButCons

\* Ensemble(dim=...): the attrs-generated __init__ of base/ensemble.py
EnsembleInit ==
    /\ cpc = "new" /\ ens = "Ensemble"
    /\ IF Raises(ens, kwargs)
       THEN cpc' = "raised" /\ UNCHANGED <<N, dim>>
       ELSE cpc' = "built" /\ dim' = Val(kwargs.dim) /\ UNCHANGED N
    /\ UNCHANGED <<ens, kwargs, qParam, calls, lastop, notCons>>

\* ManyBodyEnsemble(N=...): validators of N, then __dim_default
ManyBodyInit ==
    /\ cpc = "new" /\ ens = "ManyBodyEnsemble"
    /\ IF Raises(ens, kwargs)
       THEN cpc' = "raised" /\ UNCHANGED <<N, dim>>
       ELSE cpc' = "built" /\ N' = Val(kwargs.N) /\ dim' = DimOfN(Val(kwargs.N))
    /\ UNCHANGED <<ens, kwargs, qParam, calls, lastop, notCons>>

\* RMT.__init__ with _check_ensemble, which also cleans N and dim
RMTInit ==
    /\ cpc = "new" /\ ens = "RMT"
    /\ IF Raises(ens, kwargs)
       THEN cpc' = "raised" /\ UNCHANGED <<N, dim>>
       ELSE /\ cpc' = "built"
            /\ N' = Val(kwargs.N)
            /\ dim' = IF kwargs.dim # None THEN Val(kwargs.dim)
                      ELSE Pow2((Val(kwargs.N) \div 2) - 1)
    /\ UNCHANGED <<ens, kwargs, qParam, calls, lastop, notCons>>

\* SYK.__init__: RMT.__init__ with the SYK checks
SYKInit ==
    /\ cpc = "new" /\ ens = "SYK"
    /\ IF Raises(ens, kwargs)
       THEN cpc' = "raised" /\ UNCHANGED <<N, dim, qParam>>
       ELSE /\ cpc' = "built"
            /\ N' = Val(kwargs.N)
            /\ dim' = Pow2((Val(kwargs.N) \div 2) - 1)
            /\ qParam' = Val(kwargs.q)
    /\ UNCHANGED <<ens, kwargs, calls, lastop, notCons>>

\* generate / randm on a constructed object: it draws from the object's
\* random number generator and assigns no parameter
Generate ==
    /\ cpc = "built"
    /\ calls < MaxCalls
    /\ calls' = calls + 1
    /\ lastop' = "generate"
    /\ UNCHANGED <<ensVars, kwargs, qParam, cpc, notCons>>

\* eigvals_stream / eig_stream: realizations drawn into one buffer
EigvalsStream ==
    /\ cpc = "built"
    /\ calls < MaxCalls
    /\ calls' = calls + 1
    /\ lastop' = "eigvals_stream"
    /\ UNCHANGED <<ensVars, kwargs, qParam, cpc, notCons>>

\* unfold: dim * (cdf(E) - cdf(0)), a pure function of the argument
UnfoldCall ==
    /\ cpc = "built"
    /\ calls < MaxCalls
    /\ calls' = calls + 1
    /\ lastop' = "unfold"
    /\ UNCHANGED <<ensVars, kwargs, qParam, cpc, notCons>>

ConsNext ==
    \/ EnsembleInit
    \/ ManyBodyInit
    \/ RMTInit
    \/ SYKInit
    \/ Generate
    \/ EigvalsStream
    \/ UnfoldCall

SpecCons == ConsInit /\ [][ConsNext]_vars

----------------------------------------------------------------------------
(* Properties of the construction *)

Built == cpc = "built"

\* C6: every successfully constructed ensemble built from N has
\* dim = 2 ** (N // 2 - 1) (an explicit dim that disagrees with N is
\* rejected), and no later operation changes N or dim
C6_DimFromN ==
    /\ [](Built /\ kwargs.N # None => dim = Pow2((N \div 2) - 1))
    /\ [][Built => (N' = N /\ dim' = dim)]_vars

\* an object built from N = 6 and the matching explicit dim = 4, after
\* two operations, the last one a generation
C6_Witness ==
    /\ Built /\ ens = "RMT"
    /\ kwargs.N = Some(6) /\ kwargs.dim = Some(4)
    /\ N = 6 /\ dim = 4
    /\ calls = 2 /\ lastop = "generate"

\* the arguments the claim calls invalid
InvalidArgs ==
    \/ kwargs.N # None /\ Val(kwargs.N) % 2 = 1
    \/ kwargs.q # None /\ Val(kwargs.q) % 2 = 1
    \/ kwargs.q # None /\ kwargs.N # None /\ Val(kwargs.q) >= Val(kwargs.N)
    \/ kwargs.dim # None /\ Val(kwargs.dim) <= 0

\* C7: a constructor called with an odd N, a q that is not even, a q >= N
\* or a non-positive dimension raises: no object is ever built from such
\* arguments and no operation is ever performed on one
C7_InvalidArgsRaise ==
    InvalidArgs =>
        /\ cpc \in {"new", "raised"}
        /\ calls = 0
        /\ N = 0 /\ dim = 0 /\ qParam = 0

\* SYK(q=3, N=6) has raised
C7_Witness ==
    /\ cpc = "raised" /\ ens = "SYK"
    /\ kwargs.q = Some(3) /\ kwargs.N = Some(6) /\ kwargs.dim = None

----------------------------------------------------------------------------
(* Data containers: registry, archive content, Data.load *)

\* entries of an array take the values 0..MaxEntry
MaxEntry == 1
\* CDOEvolve.run writes at most MaxTasks archives
MaxTasks == 2

\* DATA_REGISTRY: the keys __attrs_init_subclass__ registers
DATA_REGISTRY ==
    {"form_factors_data", "spectral_density_data",
     "evolved_states_data", "cdo_dynamics_data"}

\* the fields of a class the generated __init__ takes, in order (of the
\* fields that have a default, one is kept)
InitFields(c) ==
    CASE c = "form_factors_data"     -> <<"num_times">>
      [] c = "spectral_density_data" -> <<"num_bins">>
      [] c = "evolved_states_data"   -> <<"realizs", "num_times", "dim", "dtype">>
      [] OTHER                       -> <<"num_times", "dim">>

\* those of them that have no default
Mandatory(c) ==
    CASE c = "evolved_states_data" -> {"realizs", "num_times", "dim", "dtype"}
      [] c = "cdo_dynamics_data"   -> {"dim"}
      [] OTHER                     -> {}

\* array fields of a class (of arrays that are handled alike, one is kept)
ArrayFields(c) ==
    CASE c = "form_factors_data"     -> <<"times", "mu_2", "sff">>
      [] c = "spectral_density_data" -> <<"bins", "hist">>
      [] c = "evolved_states_data"   -> <<"states">>
      [] OTHER                       -> <<"times", "probs">>

\* attrs.asdict(self): Data's fields, then the fields of the subclass
FieldOrder(c) == <<"metadata", "file_name">> \o InitFields(c) \o ArrayFields(c)

Range(f) == {f[i] : i \in DOMAIN f}

\* the attributes an instance has a slot for
Slots(c) == Range(FieldOrder(c))

ArrayVals == {<<v>> : v \in 0..MaxEntry}

\* value of a field of a default-constructed instance
DefaultVal(c, f) ==
    IF f = "metadata" THEN [name |-> c]          \* __attrs_post_init__
    ELSE IF f = "file_name" THEN c               \* __file_name_default
    ELSE IF f \in Range(ArrayFields(c)) THEN <<0>>
    ELSE 1

\* the instances of class c
Instances(c) ==
    {[cls |-> c,
      vals |-> [f \in Slots(c) |->
                  IF f \in Range(ArrayFields(c)) THEN a[f] ELSE DefaultVal(c, f)]] :
        a \in [Range(ArrayFields(c)) -> ArrayVals]}

\* the end of a zip archive: its central directory
EOCD == <<"EOCD", 0>>

\* np.savez(file, **asdict(self), allow_pickle=True): one entry per keyword;
\* a savez without an allow_pickle parameter stores that keyword as an array
SavezEntries(inst, old) ==
    [i \in 1..Len(FieldOrder(inst.cls)) |->
        <<FieldOrder(inst.cls)[i], inst.vals[FieldOrder(inst.cls)[i]]>>]
    \o (IF old THEN <<<<"allow_pickle", TRUE>>>> ELSE <<>>)
    \o <<EOCD>>

\* np.savez_compressed(temp_file, unfold=..., N=..., ...) of the other writers
PlainEntries(w) ==
    (IF w = "CDOEvolve.run"
     THEN <<<<"unfold", 0>>, <<"N", 0>>, <<"times", 0>>, <<"states", 0>>>>
     ELSE <<<<"unfold", 0>>, <<"N", 0>>, <<"times", 0>>, <<"entropy", 0>>>>)
    \o <<EOCD>>

\* what the writer has to write
Payload == IF writer = "Data.save" THEN SavezEntries(dataObj, oldSavez) ELSE PlainEntries(writer)

\* a file
Absent == [exists |-> FALSE, data |-> <<>>]
File(d) == [exists |-> TRUE, data |-> d]

Raise(e) == [ok |-> FALSE, err |-> e]

\* data_structure_hook on the archive at a path
data_structure_hook(f) ==
    LET d == f.data
        keys == {d[i][1] : i \in 1..Len(d)} \ {"EOCD"}
        get(k) == d[CHOOSE i \in 1..Len(d) : d[i][1] = k][2]
    IN  IF ~f.exists THEN Raise("FileNotFoundError")
        ELSE IF d = <<>> \/ d[Len(d)] # EOCD THEN Raise("BadZipFile")
        ELSE IF "metadata" \notin keys THEN Raise("KeyError")
        ELSE IF get("metadata").name \notin DATA_REGISTRY THEN Raise("ValueError")
        ELSE LET c == get("metadata").name
             IN  IF Mandatory(c) # {} THEN Raise("TypeError")           \* data_cls()
                 ELSE IF keys \ Slots(c) # {} THEN Raise("AttributeError")
                 ELSE [ok |-> TRUE,
                       obj |-> [cls |-> c,
                                vals |-> [k \in Slots(c) |->
                                            IF k \in keys THEN get(k)
                                            ELSE DefaultVal(c, k)]]]

----------------------------------------------------------------------------
(* Archive writes: temporary file, flush, fsync, rename *)

Writers == {"Data.save", "CDOEvolve.run", "cdo_calc_stats"}

\* os.path.join(self.outdir, f"times_{n}")
OutDirs == <<"times_0", "times_1", "times_2", "times_3">>

\* the final path of the k-th archive of writer w
FinalPath(w, k) ==
    CASE w = "Data.save"     -> "data.npz"
      [] w = "CDOEvolve.run" -> OutDirs[k + 1] \o "/0.npz"
      [] OTHER               -> "stats/0.npz"

\* a path that is written directly
SamePath(p) == p

\* path.with_suffix(path.suffix + ".tmp"), f"{process_id}.npz.tmp"
tmp_path(p) == p \o ".tmp"

FinalPaths == {FinalPath(w, k) : w \in Writers, k \in 0..(MaxTasks - 1)}
AllPaths == FinalPaths \cup {p \o ".tmp" : p \in FinalPaths}

\* the paths of the archive being written
path == FinalPath(writer, nfile)
tmp == tmp_path(path)

\* an archive left at a final path by an earlier run
OldArchive == <<<<"metadata", [name |-> "previous"]>>, EOCD>>

\* number of entries that savez has written so far
Written == Len(fs[tmp].data) + Len(buf)

FileInit ==
    /\ writer \in Writers
    /\ dataObj \in (IF writer = "Data.save"
                    THEN UNION {Instances(c) : c \in DATA_REGISTRY}
                    ELSE {<<>>})
    /\ oldSavez \in (IF writer = "Data.save" THEN BOOLEAN ELSE {FALSE})
    /\ ntasks \in (IF writer = "CDOEvolve.run" THEN 1..MaxTasks ELSE {1})
    /\ nfile = 0
    /\ prev \in [FinalPaths -> {Absent, File(OldArchive)}]
    /\ \A p \in FinalPaths :
          (\A k \in 0..(ntasks - 1) : p # FinalPath(writer, k)) => prev[p] = Absent
    /\ \E stale \in {Absent, File(<<OldArchive[1]>>)} :
          fs = [p \in AllPaths |-> IF p \in FinalPaths THEN prev[p] ELSE stale]
    /\ buf = <<>>
    /\ disk = <<>>
    /\ wpc = "start"
    /\ loaded = <<>>
    /\ IdleButFile

\* open(tmp_path, "wb"): creates or truncates the temporary file
OpenTmp ==
    /\ wpc = "start"
    /\ fs' = [fs EXCEPT ![tmp] = File(<<>>)]
    /\ buf' = <<>>
    /\ wpc' = "open"
    /\ UNCHANGED <<writer, dataObj, oldSavez, prev, disk, ntasks, nfile, loaded, notFile>>

\* np.savez writes the next entry; the file object may or may not pass its buffer on
Savez ==
    /\ wpc = "open"
    /\ Written < Len(Payload)
    /\ \E spill \in BOOLEAN :
          LET b == Append(buf, Payload[Written + 1])
          IN  IF spill
              THEN /\ fs' = [fs EXCEPT ![tmp] = File(fs[tmp].data \o b)]
                   /\ buf' = <<>>
              ELSE /\ fs' = fs
                   /\ buf' = b
    /\ UNCHANGED <<writer, dataObj, oldSavez, prev, disk, ntasks, nfile, wpc, loaded, notFile>>

\* file.flush() after savez has returned
Flush ==
    /\ wpc = "open"
    /\ Written = Len(Payload)
    /\ fs' = [fs EXCEPT ![tmp] = File(fs[tmp].data \o buf)]
    /\ buf' = <<>>
    /\ wpc' = "flushed"
    /\ UNCHANGED <<writer, dataObj, oldSavez, prev, disk, ntasks, nfile, loaded, notFile>>

\* os.fsync(file.fileno()), then the with block closes the file
Fsync ==
    /\ wpc = "flushed"
    /\ disk' = fs[tmp].data
    /\ wpc' = "synced"
    /\ UNCHANGED <<writer, dataObj, oldSavez, fs, prev, buf, ntasks, nfile, loaded, notFile>>

\* shutil.move(tmp_path, path): a rename within one directory
Move ==
    /\ wpc = "synced"
    /\ fs' = [p \in AllPaths |->
                IF p = path THEN fs[tmp]
                ELSE IF p = tmp THEN Absent
                ELSE fs[p]]
    /\ wpc' = "moved"
    /\ UNCHANGED <<writer, dataObj, oldSavez, prev, buf, disk, ntasks, nfile, loaded, notFile>>

\* CDOEvolve.run: the next n of the loop over the chunks of times
NextArchive ==
    /\ wpc = "moved"
    /\ nfile + 1 < ntasks
    /\ nfile' = nfile + 1
    /\ disk' = <<>>
    /\ wpc' = "start"
    /\ UNCHANGED <<writer, dataObj, oldSavez, fs, prev, buf, ntasks, loaded, notFile>>

\* the process is interrupted before the rename; what it had buffered is lost
Interrupt ==
    /\ wpc \in {"start", "open", "flushed", "synced"}
    /\ buf' = <<>>
    /\ wpc' = "crashed"
    /\ UNCHANGED <<writer, dataObj, oldSavez, fs, prev, disk, ntasks, nfile, loaded, notFile>>

\* Data.load(path) after Data.save(path)
Load ==
    /\ wpc = "moved"
    /\ writer = "Data.save"
    /\ loaded' = data_structure_hook(fs[path])
    /\ wpc' = "loaded"
    /\ UNCHANGED <<writer, dataObj, oldSavez, fs, prev, buf, disk, ntasks, nfile, notFile>>

FileNext ==
    \/ OpenTmp
    \/ Savez
    \/ Flush
    \/ Fsync
    \/ Move
    \/ NextArchive
    \/ Interrupt
    \/ Load

SpecFile == FileInit /\ [][FileNext]_vars

\* C8: for every registered Data subclass and every instance of it, saving the
\* instance to a path and loading that path returns an object of the same class
\* whose array fields all equal those of the instance.
C8_SaveLoadRoundTrip ==
    wpc = "loaded" =>
        /\ loaded.ok
        /\ loaded.obj.cls = dataObj.cls
        /\ \A f \in Range(ArrayFields(dataObj.cls)) :
              loaded.obj.vals[f] = dataObj.vals[f]

\* the final paths the writer has renamed an archive onto
Renamed ==
    {FinalPath(writer, k) : k \in 0..(nfile - 1)}
    \cup (IF wpc \in {"moved", "loaded"} THEN {path} ELSE {})

----------------------------------------------------------------------------
(* Worker pool: division of the realizations among the workers *)

MaxPoolRealizs == 6
MaxWorkers == 4

\* realizs_array without the remainder
NoRemainder(R, W) == [i \in 0..(W - 1) |-> R \div W]

\* divmod(realizs, num_workers); np.full(...); realizs_array[:remainder] += 1
realizs_array(R, W) ==
    [i \in 0..(W - 1) |-> (R \div W) + (IF i < R % W THEN 1 ELSE 0)]

RECURSIVE SumTo(_, _)
\* np.sum(a[:k])
SumTo(a, k) == IF k = 0 THEN 0 ELSE SumTo(a, k - 1) + a[k - 1]

start_idx(R, W, id) == SumTo(realizs_array(R, W), id)
end_idx(R, W, id) == start_idx(R, W, id) + realizs_array(R, W)[id]

PoolInit ==
    /\ numRealizs \in 1..MaxPoolRealizs
    /\ num_workers \in 1..MaxWorkers
    /\ evolved_states = [r \in 0..(numRealizs - 1) |-> {}]
    /\ finished = {}
    /\ poolpc = "map"
    /\ IdleButPool

\* _calc_evolved_states of one worker: evolve_states fills out=evolved_states[:, start_idx:end_idx, :]
CalcEvolvedStates ==
    /\ poolpc = "map"
    /\ \E id \in (0..(num_workers - 1)) \ finished :
          /\ evolved_states' =
                [r \in 0..(numRealizs - 1) |->
                    IF /\ start_idx(numRealizs, num_workers, id) <= r
                       /\ r < end_idx(numRealizs, num_workers, id)
                    THEN evolved_states[r] \cup {id}
                    ELSE evolved_states[r]]
          /\ finished' = finished \cup {id}
    /\ UNCHANGED <<numRealizs, num_workers, poolpc, notPool>>

\* pool.map returns when every worker has returned
PoolJoin ==
    /\ poolpc = "map"
    /\ finished = 0..(num_workers - 1)
    /\ poolpc' = "joined"
    /\ UNCHANGED <<numRealizs, num_workers, evolved_states, finished, notPool>>

PoolNext ==
    \/ CalcEvolvedStates
    \/ PoolJoin

SpecPool == PoolInit /\ [][PoolNext]_vars

\* C10: the realization ranges [start_idx, end_idx) of the workers are pairwise
\* disjoint and cover [0, realizs): no element of the shared array is written
\* by two workers, and after the pool has run none is left unwritten.
C10_WorkerRangesPartition ==
    /\ \A r \in 0..(numRealizs - 1) : Cardinality(evolved_states[r]) <= 1
    /\ poolpc = "joined" =>
          \A r \in 0..(numRealizs - 1) : Cardinality(evolved_states[r]) = 1
    /\ \A i, j \in 0..(num_workers - 1) :
          i < j => end_idx(numRealizs, num_workers, i) <= start_idx(numRealizs, num_workers, j)
    /\ num_workers > 0 =>
          /\ start_idx(numRealizs, num_workers, 0) = 0
          /\ end_idx(numRealizs, num_workers, num_workers - 1) = numRealizs

\* a pool with a remainder to distribute, after all workers have returned
C10_Witness ==
    /\ poolpc = "joined"
    /\ numRealizs = 5
    /\ num_workers = 3
    /\ evolved_states = [r \in 0..4 |-> IF r < 2 THEN {0} ELSE IF r < 4 THEN {1} ELSE {2}]

----------------------------------------------------------------------------
(* A data container through its life: construction, accumulation,
   normalization, save and load *)

\* SpectralDensityData.__default_hist with one entry too many
ZerosPlusOne(n) == [i \in 1..(n + 1) |-> RInt(0)]

\* np.zeros(n)
Zeros(n) == [i \in 1..n |-> RInt(0)]

\* np.logspace(logt_i, logt_f, num_times), in the units of Times
default_times(n) == [k \in 1..n |-> k]

\* arguments of the constructors: a bin configuration, a number of times
ContArgs ==
    {<<"spectral_density_data", c>> : c \in BinStarts \X (1..MaxWidth) \X (-1..MaxBins)}
    \cup {<<"form_factors_data", n>> : n \in 0..NumTimes}

\* TRUE iff the constructor raises: np.zeros of a negative length, validator gt(0)
ContRaises(a) ==
    IF a[1] = "spectral_density_data" THEN a[2][3] < 0 ELSE ~(a[2] > 0)

\* the container the constructor builds
NewContainer(a) ==
    IF a[1] = "spectral_density_data"
    THEN [cls |-> a[1],
          vals |-> [f \in Slots(a[1]) |->
                      CASE f = "num_bins" -> a[2][3]
                        [] f = "bins"     -> Linspace(a[2])
                        [] f = "hist"     -> Zeros(a[2][3])
                        [] OTHER          -> DefaultVal(a[1], f)]]
    ELSE [cls |-> a[1],
          vals |-> [f \in Slots(a[1]) |->
                      CASE f = "num_times" -> a[2]
                        [] f = "times"     -> default_times(a[2])
                        [] f = "mu_2"      -> Zeros(a[2])
                        [] f = "sff"       -> Zeros(a[2])
                        [] OTHER           -> DefaultVal(a[1], f)]]

\* a[:] += b and a[:] /= b keep the shape of a; b must have it, or one entry
Broadcasts(a, b) == Len(b) = Len(a) \/ Len(b) = 1
InPlaceAdd(a, b) ==
    [i \in 1..Len(a) |-> RAdd(a[i], IF Len(b) = Len(a) THEN b[i] ELSE b[1])]

\* the spectra of the accumulation steps
ContSpectra == Spectra("GUE", 2)

ContInit ==
    /\ cont \in ContArgs
    /\ accum = 0
    /\ npOld \in BOOLEAN
    /\ dpc = "new"
    /\ IdleButCont

\* SpectralDensityData(...), FormFactorsData(...)
Construct ==
    /\ dpc = "new"
    /\ IF ContRaises(cont)
       THEN dpc' = "raised" /\ cont' = cont
       ELSE dpc' = "built" /\ cont' = NewContainer(cont)
    /\ UNCHANGED <<accum, npOld, notCont>>

\* realize_monte_carlo, one iteration: hist[:] += ..., mu_2[:] += ...
Accumulate ==
    /\ dpc = "built"
    /\ accum < MaxRealizs
    /\ \E levels \in ContSpectra :
          LET v == cont.vals
              counts == spectral_histogram(levels, v.bins)
              add == IF cont.cls = "spectral_density_data"
                     THEN [i \in 1..Len(counts) |-> RInt(counts[i])]
                     ELSE sff_moments(levels, v.times)[2]
              f == IF cont.cls = "spectral_density_data" THEN "hist" ELSE "mu_2"
          IN  IF Broadcasts(v[f], add)
              THEN /\ cont' = [cont EXCEPT !.vals[f] = InPlaceAdd(v[f], add)]
                   /\ accum' = accum + 1
                   /\ dpc' = dpc
              ELSE /\ dpc' = "raised"
                   /\ UNCHANGED <<cont, accum>>
    /\ UNCHANGED <<npOld, notCont>>

\* calculate_statistics: hist[:] /= ..., mu_2[:] /= realizs
Finalize ==
    /\ dpc = "built"
    /\ accum > 0
    /\ cont' = IF cont.cls = "spectral_density_data"
               THEN [cont EXCEPT !.vals.hist = Normalize(cont.vals.hist, cont.vals.bins)]
               ELSE [cont EXCEPT !.vals.mu_2 =
                        [k \in 1..Len(cont.vals.mu_2) |->
                            RDiv(cont.vals.mu_2[k], RInt(accum))]]
    /\ dpc' = "final"
    /\ UNCHANGED <<accum, npOld, notCont>>

\* data.save(path), then Data.load(path)
SaveLoad ==
    /\ dpc \in {"built", "final"}
    /\ LET r == data_structure_hook(File(SavezEntries(cont, npOld)))
       IN  IF r.ok
           THEN cont' = r.obj /\ dpc' = "loaded"
           ELSE cont' = cont /\ dpc' = "raised"
    /\ UNCHANGED <<accum, npOld, notCont>>

ContNext ==
    \/ Construct
    \/ Accumulate
    \/ Finalize
    \/ SaveLoad

SpecCont == ContInit /\ [][ContNext]_vars

\* the lengths of the arrays of a container agree with its num_bins, times
LengthsAgree(c) ==
    IF c.cls = "spectral_density_data"
    THEN /\ Len(c.vals.hist) = c.vals.num_bins
         /\ Len(c.vals.bins) = c.vals.num_bins + 1
    ELSE /\ Len(c.vals.mu_2) = Len(c.vals.times)
         /\ Len(c.vals.sff) = Len(c.vals.times)

HasContainer == dpc \in {"built", "final", "loaded"}

\* C11: in every state of a data container (constructed, accumulated into,
\* normalized, saved and loaded) a histogram has num_bins entries and its bin
\* edges num_bins + 1, and every form-factor array has the length of its times;
\* no operation changes the length of an array.
C11_ArrayLengthsFixed ==
    /\ [](HasContainer => LengthsAgree(cont))
    /\ [][HasContainer =>
            \A f \in Range(ArrayFields(cont.cls)) :
                Len(cont'.vals[f]) = Len(cont.vals[f])]_vars

\* a histogram of two bins, accumulated into twice, normalized, saved and loaded
C11_Witness ==
    /\ dpc = "loaded"
    /\ cont.cls = "spectral_density_data"
    /\ cont.vals.num_bins = 2
    /\ accum = 2
    /\ Len(cont.vals.hist) = 2
    /\ Len(cont.vals.bins) = 3
    /\ REq(Integral(cont.vals.hist, cont.vals.bins), RInt(1))

----------------------------------------------------------------------------
(* SYK: suppression factor and generate *)

\* largest N of an SYK object
MaxSykN == 12

RECURSIVE comb(_, _)
\* math.comb
comb(n, k) ==
    IF k > n THEN 0
    ELSE IF k = 0 THEN 1
    ELSE (comb(n - 1, k - 1) * n) \div k

RECURSIVE EtaSum(_, _, _)
\* sum over k = 0..m of (-1) ** (q - k) * comb(q, k) * comb(n - q, q - k)
EtaSum(n, qq, m) ==
    IF m < 0 THEN 0
    ELSE EtaSum(n, qq, m - 1)
         + (IF (qq - m) % 2 = 0 THEN 1 ELSE -1) * comb(qq, m) * comb(n - qq, qq - m)

\* the sum without the division by comb(N, q)
EtaUnnormalised(n, qq) == RInt(EtaSum(n, qq, qq))

\* SYK.__init__: the suppression factor
Eta(n, qq) == Rat(EtaSum(n, qq, qq), comb(n, qq))

\* the pairs (N, q) that SYK._check_ensemble accepts
SykArgs ==
    {a \in (1..MaxSykN) \X (1..MaxSykN) :
        ~SYK_check_ensemble(Some(a[2]), Some(a[1]), None)}

\* products[j] for j >= i, from products[i - 1] and the indices
RECURSIVE Refill(_, _, _, _)
Refill(prods, inds, i, qq) ==
    IF i >= qq THEN prods
    ELSE Refill([prods EXCEPT ![i] = (IF i = 0 THEN <<>> ELSE prods[i - 1]) \o <<inds[i]>>],
                inds, i + 1, qq)

\* the update of products that leaves the entries after the changed index alone
RefillOne(prods, inds, i, qq) ==
    [prods EXCEPT ![i] = (IF i = 0 THEN <<>> ELSE prods[i - 1]) \o <<inds[i]>>]

\* lines 220-228: products[i], then products[j] for j > i
UpdateProducts(prods, inds, i, qq) == Refill(prods, inds, i, qq)

\* the indices i that the for loop of lines 209-215 could increment
Movable(inds, n, qq) == {i \in 0..(qq - 1) : inds[i] < n - qq + i}

\* lines 209-215: the next combination (the last movable index moves)
NextIndices(inds, n, qq) ==
    LET i == CHOOSE k \in Movable(inds, n, qq) : \A l \in Movable(inds, n, qq) : l <= k
    IN  [j \in 0..(qq - 1) |->
            IF j < i THEN inds[j] ELSE inds[i] + 1 + (j - i)]

SykInit ==
    /\ ens = "SYK"
    /\ \E a \in SykArgs : N = a[1] /\ sykq = a[2] /\ dim = DimOfN(a[1])
    /\ eta = <<>>
    /\ indices = <<>>
    /\ products = <<>>
    /\ sykH = <<>>
    /\ ypc = "new"
    /\ IdleButSyk

\* SYK.__init__ (the arguments are valid)
SykConstruct ==
    /\ ypc = "new"
    /\ eta' = Eta(N, sykq)
    /\ ypc' = "built"
    /\ UNCHANGED <<ensVars, sykq, indices, products, sykH, notSyk>>

\* generate, lines 184-198: the first combination and its products
SykStart ==
    /\ ypc = "built"
    /\ indices' = [i \in 0..(sykq - 1) |-> i]
    /\ products' = Refill([i \in 0..(sykq - 1) |-> <<>>], indices', 0, sykq)
    /\ sykH' = <<>>
    /\ ypc' = "loop"
    /\ UNCHANGED <<ensVars, sykq, eta, notSyk>>

\* generate, one iteration of the while loop, lines 201-228
SykTerm ==
    /\ ypc = "loop"
    /\ sykH' = Append(sykH, products[sykq - 1])
    /\ IF Movable(indices, N, sykq) = {}
       THEN /\ ypc' = "scale"
            /\ UNCHANGED <<indices, products>>
       ELSE LET i == CHOOSE k \in Movable(indices, N, sykq) :
                        \A l \in Movable(indices, N, sykq) : l <= k
            IN  /\ indices' = NextIndices(indices, N, sykq)
                /\ products' = UpdateProducts(products, indices', i, sykq)
                /\ ypc' = ypc
    /\ UNCHANGED <<ensVars, sykq, eta, notSyk>>

\* generate, lines 230-232: scale and return
SykReturn ==
    /\ ypc = "scale"
    /\ ypc' = "done"
    /\ UNCHANGED <<ensVars, sykq, eta, indices, products, sykH, notSyk>>

SykNext ==
    \/ SykConstruct
    \/ SykStart
    \/ SykTerm
    \/ SykReturn

SpecSyk == SykInit /\ [][SykNext]_vars

\* generate is not interrupted: its next step is eventually taken
SpecSykFair == SpecSyk /\ WF_vars(SykNext)

\* the strictly increasing q-tuples of 0..n-1, as sets of indices
Combinations(n, qq) == {S \in SUBSET (0..(n - 1)) : Cardinality(S) = qq}

Increasing(t) == \A j \in 1..(Len(t) - 1) : t[j] < t[j + 1]

\* C12: generate terminates for every valid (N, q); it adds one term for each
\* of the C(N, q) strictly increasing q-tuples of Majorana indices, each tuple
\* exactly once, and the operator it adds is the ordered product of the
\* Majoranas at the indices of the current tuple.
C12_OneTermPerCombination ==
    /\ [](ypc = "loop" =>
            /\ \A i \in 0..(sykq - 1) : products[i] = [j \in 1..(i + 1) |-> indices[j - 1]]
            /\ Increasing(products[sykq - 1])
            /\ \A k \in 1..Len(sykH) : sykH[k] # products[sykq - 1])
    /\ [](ypc = "done" =>
            /\ Len(sykH) = comb(N, sykq)
            /\ Cardinality(Range(sykH)) = Len(sykH)
            /\ \A k \in 1..Len(sykH) : Increasing(sykH[k]) /\ Len(sykH[k]) = sykq
            /\ {Range(sykH[k]) : k \in 1..Len(sykH)} = Combinations(N, sykq))
    /\ <>(ypc = "done")

\* generate has returned for N = 8, q = 4 with its 70 terms
C12_Witness ==
    /\ ypc = "done"
    /\ N = 8
    /\ sykq = 4
    /\ Len(sykH) = 70
    /\ sykH[1] = <<0, 1, 2, 3>>
    /\ sykH[70] = <<4, 5, 6, 7>>

\* the SYK object of the end-to-end scenario, constructed
Syk12_4 == ypc # "new" /\ N = 12 /\ sykq = 4

\* C14 (as stated): the suppression factor of SYK with N = 12, q = 4 lies
\* strictly between 0 and 1.
C14_EtaBetweenZeroAndOne ==
    Syk12_4 => ~RLeq(eta, RInt(0)) /\ ~RLeq(RInt(1), eta)

\* C14 (amended): the suppression factor of SYK with N = 12, q = 4 is
\* -17/495: negative, strictly between -1 and 0.
C14_EtaIsNegative ==
    Syk12_4 =>
        /\ REq(eta, Rat(-17, 495))
        /\ ~RLeq(eta, RInt(-1))
        /\ ~RLeq(RInt(0), eta)

\* SYK(N=12, q=4) constructed, generate not yet called
C14_Witness ==
    /\ ypc = "built"
    /\ N = 12
    /\ sykq = 4
    /\ eta = <<-17, 495>>

----------------------------------------------------------------------------
(* von Neumann entropy of a chaotic density operator *)

\* eigenvalues are k * 1e-10 with k in -1..MaxEig (-1: a negative rounding error)
MaxEig == 3
\* largest dimension of the density operator
MaxCdoDim == 3

\* eigvals > 1e-10
AboveThreshold(e) == e > 1

\* eigvals[eigvals > 1e-10]
Filtered(eig) == SelectSeq(eig, AboveThreshold)

\* x * np.log(x) is a finite number iff x > 0 (log(0) = -inf, 0 * -inf = nan, log(x < 0) = nan)
TermFinite(e) == e > 0

\* -np.sum(eigvals * np.log(eigvals)); the sum over no eigenvalue is 0
EntropyOf(eig) ==
    [logged |-> eig, finite |-> \A k \in 1..Len(eig) : TermFinite(eig[k])]

EntropySites == {"cdo_calc_stats.main", "cdo_entropy", "calculate_cdo_dynamics"}

EntInit ==
    /\ site \in EntropySites
    /\ \E d \in 1..MaxCdoDim :
          /\ cdoEig \in [1..d -> -1..MaxEig]
          /\ \A j \in 1..(d - 1) : cdoEig[j] <= cdoEig[j + 1]
    /\ entropy = <<>>
    /\ epc = "eig"
    /\ IdleButEnt

\* analyses/cdo_calc_stats.py main: filter, then the sum, or 0.0 for no eigenvalue
CalcStatsEntropy ==
    /\ epc = "eig"
    /\ site = "cdo_calc_stats.main"
    /\ entropy' = EntropyOf(Filtered(cdoEig))
    /\ epc' = "stored"
    /\ UNCHANGED <<site, cdoEig, notEnt>>

\* simulations/cdo_evolution.py cdo_entropy: filter, then the sum
CdoEntropy ==
    /\ epc = "eig"
    /\ site = "cdo_entropy"
    /\ entropy' = EntropyOf(Filtered(cdoEig))
    /\ epc' = "stored"
    /\ UNCHANGED <<site, cdoEig, notEnt>>

\* CDOEvolution.calculate_cdo_dynamics: the sum over all eigenvalues
CalculateCdoDynamics ==
    /\ epc = "eig"
    /\ site = "calculate_cdo_dynamics"
    /\ entropy' = EntropyOf(cdoEig)
    /\ epc' = "stored"
    /\ UNCHANGED <<site, cdoEig, notEnt>>

EntNext ==
    \/ CalcStatsEntropy
    \/ CdoEntropy
    \/ CalculateCdoDynamics

SpecEnt == EntInit /\ [][EntNext]_vars

\* C13: in every computation of the von Neumann entropy the eigenvalues that
\* do not exceed 1e-10 are removed before the logarithm is taken, so no
\* logarithm of a zero or negative eigenvalue is evaluated and the stored
\* entropy is finite.
C13_EntropyFiltered ==
    epc = "stored" =>
        /\ \A k \in 1..Len(entropy.logged) : AboveThreshold(entropy.logged[k])
        /\ entropy.finite

----------------------------------------------------------------------------
(* Registries: reconstruction of an object from a deserialized record *)

\* a name is a tuple of characters; str.lower() on one character
Lower(c) ==
    CASE
         c = "B" -> "b"
      [] c = "C" -> "c"
      [] c = "D" -> "d"
      [] c = "E" -> "e"
      [] c = "G" -> "g"
      [] c = "K" -> "k"
      [] c = "O" -> "o"
      [] c = "P" -> "p"
      [] c = "S" -> "s"
      [] c = "U" -> "u"
      [] c = "X" -> "x"
      [] c = "Y" -> "y"
      [] OTHER -> c

LowerAll(t) == [i \in 1..Len(t) |-> Lower(t[i])]

NotSeparator(c) == c \notin {"_", " "}
NotUnderscore(c) == c # "_"

\* the characters of a tuple as one string
RECURSIVE Join(_)
Join(t) == IF t = <<>> THEN "" ELSE t[1] \o Join(Tail(t))

\* re.sub(r"[_ ]", "", val).lower()
DictKey(t) == Join(LowerAll(SelectSeq(t, NotSeparator)))

\* re.sub(r"_", "", cls.__name__).lower()
ClassKey(t) == Join(LowerAll(SelectSeq(t, NotUnderscore)))

\* str.strip(): leading and trailing blanks removed
RECURSIVE LStrip(_)
LStrip(t) == IF t # <<>> /\ t[1] = " " THEN LStrip(Tail(t)) ELSE t
RECURSIVE RStrip(_)
RStrip(t) == IF t # <<>> /\ t[Len(t)] = " " THEN RStrip(SubSeq(t, 1, Len(t) - 1)) ELSE t

\* name.strip().lower()
StemKey(t) == Join(LowerAll(RStrip(LStrip(t))))

\* the concrete ensemble classes, registered under ClassKey of their name
ENSEMBLE_REGISTRY == {<<"G", "U", "E">>, <<"G", "O", "E">>, <<"G", "S", "E">>, <<"B", "d", "G", "C">>, <<"B", "d", "G", "D">>, <<"S", "Y", "K">>, <<"C", "o", "m", "p", "o", "u", "n", "d">>, <<"P", "o", "i", "s", "s", "o", "n">>}

\* the concrete simulation classes, registered under ClassKey of their name
SIMULATION_REGISTRY == {<<"S", "p", "e", "c", "t", "r", "a", "l", "S", "t", "a", "t", "i", "s", "t", "i", "c", "s">>, <<"C", "D", "O", "E", "v", "o", "l", "u", "t", "i", "o", "n">>}

\* utils.ensemble_registry: file stem -> class of the module
StemRegistry == {ClassKey(c) : c \in ENSEMBLE_REGISTRY}

\* names a record may carry
RecordNames == {<<"G", "U", "E">>,
                <<"g", "u", "e">>,
                <<"G", "_", "U", "E">>,
                <<" ", "g", "u", "e", " ">>,
                <<"g", " ", "u", "e">>,
                <<"B", "d", "G", "D">>,
                <<"G", "X", "E">>,
                <<"n", "o", "s", "u", "c", "h">>,
                <<>>,
                <<"S", "p", "e", "c", "t", "r", "a", "l", "S", "t", "a", "t", "i", "s", "t", "i", "c", "s">>,
                <<"s", "p", "e", "c", "t", "r", "a", "l", "_", "s", "t", "a", "t", "i", "s", "t", "i", "c", "s">>,
                <<"S", "p", "e", "c", "t", "r", "a", "l", " ", "S", "t", "a", "t", "i", "s", "t", "i", "c", "s">>,
                <<"S", "p", "e", "c", "t", "r", "a", "l", "S", "t", "a", "t", "i", "s", "t", "i", "c">>,
                <<"s", "p", "e", "c", "t", "r", "a", "l", "_", "d", "e", "n", "s", "i", "t", "y", "_", "d", "a", "t", "a">>,
                <<"S", "p", "e", "c", "t", "r", "a", "l", "D", "e", "n", "s", "i", "t", "y", "D", "a", "t", "a">>,
                <<"f", "o", "r", "m", "_", "f", "a", "c", "t", "o", "r", "s", "_", "d", "a", "t", "a">>,
                <<"f", "o", "r", "m", "_", "f", "a", "c", "t", "o", "r", "s">>}

\* other top-level strings of a record whose arguments are top-level keys: dtype
ExtraStrings == {<<"c", "o", "m", "p", "l", "e", "x", "1", "2", "8">>, <<"f", "l", "o", "a", "t", "6", "4">>}

Records ==
    [name : RecordNames,
     extra : {<<>>} \cup {<<e>> : e \in ExtraStrings},
     args : {"nested", "flat", "missing"}]

\* the string values of the record in the order of its keys
StringValues(r) == <<r.name>> \o r.extra

\* the class found for the first string value whose key is registered, else none
RECURSIVE FirstRegistered(_, _)
FirstRegistered(vals, registry) ==
    IF vals = <<>> THEN None
    ELSE IF \E c \in registry : ClassKey(c) = DictKey(vals[1])
         THEN Some(CHOOSE c \in registry : ClassKey(c) = DictKey(vals[1]))
         ELSE FirstRegistered(Tail(vals), registry)

\* a lookup that falls back to some registered class
FirstOrAny(vals, registry) ==
    IF FirstRegistered(vals, registry) # None THEN FirstRegistered(vals, registry)
    ELSE Some(CHOOSE c \in registry : TRUE)

\* the first loop of normalize_dict
LookupName(vals, registry) == FirstRegistered(vals, registry)

\* normalize_dict(src, registry): the class name, or the exception
normalize_dict(r, registry) ==
    LET found == LookupName(StringValues(r), registry)
    IN  IF found = None THEN Raise("KeyError")
        ELSE IF r.args = "missing" THEN Raise("TypeError")
        ELSE [ok |-> TRUE, name |-> Val(found)]

BuiltClass(c) == [ok |-> TRUE, cls |-> Join(c)]

\* ens_structure_hook / sim_structure_hook on a dictionary
structure_hook(r, registry) ==
    LET d == normalize_dict(r, registry)
    IN  IF ~d.ok THEN d
        ELSE IF \A c \in registry : ClassKey(c) # ClassKey(d.name) THEN Raise("KeyError")
        ELSE BuiltClass(CHOOSE c \in registry : ClassKey(c) = ClassKey(d.name))

\* data_structure_hook on a dictionary with this metadata
data_hook(r) ==
    LET res == data_structure_hook(File(<<<<"metadata", [name |-> Join(r.name)]>>, EOCD>>))
    IN  IF res.ok THEN [ok |-> TRUE, cls |-> res.obj.cls] ELSE res

\* utils.get_ensemble
get_ensemble(r) ==
    IF StemKey(r.name) \notin StemRegistry THEN Raise("ValueError")
    ELSE BuiltClass(CHOOSE c \in ENSEMBLE_REGISTRY : ClassKey(c) = StemKey(r.name))

RegInit ==
    /\ regSite \in {"ens_structure_hook", "sim_structure_hook",
                    "data_structure_hook", "get_ensemble"}
    /\ record \in Records
    /\ outcome = <<>>
    /\ rpc = "record"
    /\ IdleButReg

StructureEnsemble ==
    /\ rpc = "record"
    /\ regSite = "ens_structure_hook"
    /\ outcome' = structure_hook(record, ENSEMBLE_REGISTRY)
    /\ rpc' = "done"
    /\ UNCHANGED <<regSite, record, notReg>>

StructureSimulation ==
    /\ rpc = "record"
    /\ regSite = "sim_structure_hook"
    /\ outcome' = structure_hook(record, SIMULATION_REGISTRY)
    /\ rpc' = "done"
    /\ UNCHANGED <<regSite, record, notReg>>

StructureData ==
    /\ rpc = "record"
    /\ regSite = "data_structure_hook"
    /\ outcome' = data_hook(record)
    /\ rpc' = "done"
    /\ UNCHANGED <<regSite, record, notReg>>

GetEnsemble ==
    /\ rpc = "record"
    /\ regSite = "get_ensemble"
    /\ outcome' = get_ensemble(record)
    /\ rpc' = "done"
    /\ UNCHANGED <<regSite, record, notReg>>

RegNext ==
    \/ StructureEnsemble
    \/ StructureSimulation
    \/ StructureData
    \/ GetEnsemble

SpecReg == RegInit /\ [][RegNext]_vars

\* the key under which the function looks the record's name up is registered
NameRegistered ==
    CASE regSite = "ens_structure_hook" ->
            DictKey(record.name) \in {ClassKey(c) : c \in ENSEMBLE_REGISTRY}
      [] regSite = "sim_structure_hook" ->
            DictKey(record.name) \in {ClassKey(c) : c \in SIMULATION_REGISTRY}
      [] regSite = "data_structure_hook" -> Join(record.name) \in DATA_REGISTRY
      [] regSite = "get_ensemble" -> StemKey(record.name) \in StemRegistry

----------------------------------------------------------------------------
(* MonteCarlo.__init__ and _check_mc *)

\* 2**30 bytes, in units of 256 MiB
GiB == 4
\* largest number of workers asked for
MaxMcWorkers == 3
\* largest memory asked for [GiB]
MaxMcMemory == 3
\* largest calc_memory, in units of 256 MiB
MaxCalcMemory == 9

\* cpu_count(logical=False)
CpuCount == 2
\* virtual_memory().total, in units of 256 MiB
VirtualMemory == 2 * GiB + 1

McArgSets ==
    [realizs : 0..1,
     workers : 0..MaxMcWorkers,
     memory : 0..MaxMcMemory,
     calc_memory : {1, 3, 4, 5, MaxCalcMemory}]

\* the attributes __init__ has set when it calls _check_mc
InstanceAttrs ==
    {"_ensemble", "_ens_args", "_sim_input", "_realizs",
     "_max_workers", "_max_memory", "_workers", "_memory"}

Min(a, b) == IF a <= b THEN a ELSE b

\* _check_mc, line by line, on an instance with these attributes
check_mc(a, attrs) ==
    IF "_project_path" \notin attrs \/ "_ens_input" \notin attrs
        THEN Raise("AttributeError")
    ELSE IF a.realizs < 1 THEN Raise("ValueError")
    ELSE IF a.workers < 1 \/ a.workers > CpuCount THEN Raise("ValueError")
    ELSE IF a.memory < 1 \/ a.memory > VirtualMemory \div GiB THEN Raise("ValueError")
    ELSE IF a.memory * GiB < a.calc_memory THEN Raise("ValueError")
    ELSE [ok |-> TRUE,
          workers |-> Min(a.workers, (a.memory * GiB) \div a.calc_memory),
          memory |-> a.memory * GiB]

McInit ==
    /\ mcArgs \in McArgSets
    /\ mcSim = <<>>
    /\ mcpc = "args"
    /\ IdleButMc

\* MonteCarlo.__init__
MonteCarloInit ==
    /\ mcpc = "args"
    /\ mcSim' = check_mc(mcArgs, InstanceAttrs)
    /\ mcpc' = IF mcSim'.ok THEN "constructed" ELSE "raised"
    /\ UNCHANGED <<mcArgs, notMc>>

McNext == MonteCarloInit

SpecMc == McInit /\ [][McNext]_vars

\* the memory asked for does not hold calc_memory for each worker asked for
InsufficientForWorkers(a) == a.memory * GiB < a.workers * a.calc_memory

\* C16: constructing a Monte Carlo simulation whose memory budget is
\* insufficient for the requested number of workers raises a validation
\* error (ValueError) at construction, and a constructed simulation has
\* exactly the requested number of workers.
C16_InsufficientMemoryRaises ==
    /\ (mcpc # "args" /\ InsufficientForWorkers(mcArgs)) =>
            mcSim = Raise("ValueError")
    /\ mcpc = "constructed" => mcSim.workers = mcArgs.workers

----------------------------------------------------------------------------
(* eig_stream, eigvals_stream, eff_H_eig_stream, eff_H_eigvals_stream *)

\* largest number of realizations asked of a stream
MaxStreamR == 3
\* entries of the scratch matrix that are followed
StreamEntries == 2

StreamKinds ==
    {"eig_stream", "eigvals_stream", "eff_H_eig_stream", "eff_H_eigvals_stream"}

\* what np.empty or an overwriting LAPACK call may leave in the matrix
Leftovers == [1..StreamEntries -> {0, 7}]

\* the random part one realization adds to the matrix
StreamDraws == [1..StreamEntries -> 0..1]

ZeroScratch == [i \in 1..StreamEntries |-> 0]

\* np.matmul(coupling, coupling.conj().T, out=H_eff); H_eff *= -1j * np.pi
WidthTerm == [i \in 1..StreamEntries |-> 3]

\* a reset that leaves the matrix as it is
LeftAsIs(kind, h) == h

\* H.fill(0.0), or the width term written over the whole matrix
ResetScratch(kind, h) ==
    IF kind \in {"eig_stream", "eigvals_stream"} THEN ZeroScratch ELSE WidthTerm

\* generate(offset=H) / randm(offset=H_eff): the random part is added to H
AddRandom(h, d) == [i \in 1..StreamEntries |-> h[i] + d[i]]

\* eigh / eigvalsh / eig / eigvals of the matrix
Decompose(kind, h) ==
    [of |-> h, vectors |-> kind \in {"eig_stream", "eff_H_eig_stream"}]

StrmInit ==
    /\ strKind \in StreamKinds
    /\ strR \in 0..MaxStreamR
    /\ gtor = "created"
    /\ scratch = None
    /\ allocs = 0
    /\ drawn = <<>>
    /\ yielded = <<>>
    /\ nexts = 0
    /\ IdleButStrm

\* the body of the loop up to its yield; overwrite_a leaves anything in H
LoopBody(h) ==
    \E d \in StreamDraws, left \in Leftovers :
        /\ drawn' = Append(drawn, d)
        /\ yielded' = Append(yielded,
                             Decompose(strKind, AddRandom(ResetScratch(strKind, h), d)))
        /\ scratch' = Some(left)
        /\ gtor' = "suspended"

\* first next(): the matrix is allocated, then the loop runs to its first yield
FirstNext ==
    /\ gtor = "created"
    /\ nexts' = nexts + 1
    /\ allocs' = allocs + 1
    /\ \E h \in Leftovers :
          IF strR = 0
          THEN /\ scratch' = Some(h)
               /\ gtor' = "ended"
               /\ UNCHANGED <<drawn, yielded>>
          ELSE LoopBody(h)
    /\ UNCHANGED <<strKind, strR, notStrm>>

\* a later next(): the loop goes on to the next yield, or the generator ends
ResumeNext ==
    /\ gtor = "suspended"
    /\ nexts' = nexts + 1
    /\ IF Len(yielded) = strR
       THEN /\ gtor' = "ended"
            /\ UNCHANGED <<scratch, drawn, yielded>>
       ELSE LoopBody(Val(scratch))
    /\ UNCHANGED <<strKind, strR, allocs, notStrm>>

StrmNext ==
    \/ FirstNext
    \/ ResumeNext

SpecStrm == StrmInit /\ [][StrmNext]_vars

\* C17: one call of a stream allocates a single scratch matrix, yields one
\* result per request, R results in all, and then ends; the k-th result is
\* the decomposition of the k-th realization alone (for eig_stream and
\* eigvals_stream: of the k-th random matrix added to zeros), whatever the
\* previous decomposition left in the scratch matrix.
C17_StreamYieldsEachRealization ==
    /\ allocs = (IF gtor = "created" THEN 0 ELSE 1)
    /\ Len(yielded) = Len(drawn)
    /\ Len(yielded) <= strR
    /\ nexts = Len(yielded) + (IF gtor = "ended" THEN 1 ELSE 0)
    /\ gtor = "ended" => Len(yielded) = strR
    /\ \A k \in 1..Len(yielded) :
          yielded[k] = Decompose(strKind,
                                 AddRandom(IF strKind \in {"eig_stream", "eigvals_stream"}
                                           THEN ZeroScratch ELSE WidthTerm, drawn[k]))

C17_Witness ==
    /\ strKind = "eig_stream"
    /\ strR = 3
    /\ gtor = "ended"
    /\ Len(yielded) = 3
    /\ drawn[2] # drawn[3]
    /\ yielded[3].of = drawn[3]

----------------------------------------------------------------------------
(* Simulation.save_data and sim_structure_hook *)

\* largest value held by a saved data container
MaxSaved == 3
\* largest number of realizations of the saved simulation
MaxSavedRealizs == 3

\* the data fields of SpectralStatistics and the class of each
SimDataFields == {"spectral_data", "factors_data"}
DataClassOf(f) == IF f = "spectral_data" THEN "spectral_density_data" ELSE "form_factors_data"

\* Data.file_name: the snake-case class name with "_data" removed
file_name(c) ==
    CASE c = "spectral_density_data" -> "spectral_density"
      [] c = "form_factors_data"     -> "form_factors"
      [] c = "evolved_states_data"   -> "evolved_states"
      [] c = "cdo_dynamics_data"     -> "cdo_dynamics"

\* the value a freshly constructed container holds
FreshData == 0

\* attrs.asdict(self): every nested attrs instance is turned into a dict
AsDictValues(s) ==
    {[kind |-> "int", of |-> "realizs"], [kind |-> "dict", of |-> "ensemble"],
     [kind |-> "dict", of |-> "metadata"], [kind |-> "str", of |-> "dir_name"]}
    \cup {[kind |-> "dict", of |-> f] : f \in SimDataFields}

\* isinstance(attr, Data)
IsDataInstance(v) == v.kind = "Data"

\* the metadata that __attrs_post_init__ stores and save_data dumps
SimMetadata(s) == [name |-> s.cls, extra |-> <<>>, args |-> "nested"]

DirInit ==
    /\ simObj \in [cls : SIMULATION_REGISTRY,
                   realizs : 1..MaxSavedRealizs,
                   data : [SimDataFields -> 0..MaxSaved]]
    /\ simDir = [metadata |-> None, folders |-> {}]
    /\ rebuilt = <<>>
    /\ dirpc = "run"
    /\ IdleButDir

\* Simulation.save_data(out_dir)
SaveData ==
    /\ dirpc = "run"
    /\ simDir' =
          [metadata |-> Some(SimMetadata(simObj)),
           folders |-> {[folder |-> file_name(DataClassOf(v.of)),
                         archive |-> simObj.data[v.of]] :
                           v \in {w \in AsDictValues(simObj) : IsDataInstance(w)}}]
    /\ dirpc' = "saved"
    /\ UNCHANGED <<simObj, rebuilt, notDir>>

\* the attributes sim_structure_hook sets from the folders of the directory
Attached(folders) ==
    {[attr |-> d.folder \o "_data", value |-> d.archive] :
        d \in {e \in folders : e.folder \in DATA_REGISTRY}}

\* sim_structure_hook(path)
Reconstruct ==
    /\ dirpc = "saved"
    /\ LET made == structure_hook(Val(simDir.metadata), SIMULATION_REGISTRY)
       IN  rebuilt' =
             IF ~made.ok THEN made
             ELSE [ok |-> TRUE,
                   cls |-> made.cls,
                   data |-> [f \in SimDataFields |->
                               IF \E a \in Attached(simDir.folders) : a.attr = f
                               THEN (CHOOSE a \in Attached(simDir.folders) : a.attr = f).value
                               ELSE FreshData],
                   others |-> {a.attr : a \in Attached(simDir.folders)} \ SimDataFields]
    /\ dirpc' = "loaded"
    /\ UNCHANGED <<simObj, simDir, notDir>>

DirNext ==
    \/ SaveData
    \/ Reconstruct

SpecDir == DirInit /\ [][DirNext]_vars

\* C18: the simulation reconstructed from a directory that save_data wrote
\* is of the saved class and its data containers hold the saved arrays:
\* every data container has its archive in the folder named by its
\* file_name, and the archive is loaded and attached.
C18_SavedSimulationRestored ==
    /\ dirpc # "run" =>
          \A f \in SimDataFields :
              \E d \in simDir.folders :
                  d.folder = file_name(DataClassOf(f)) /\ d.archive = simObj.data[f]
    /\ dirpc = "loaded" =>
          /\ rebuilt.ok
          /\ rebuilt.cls = Join(simObj.cls)
          /\ \A f \in SimDataFields : rebuilt.data[f] = simObj.data[f]

----------------------------------------------------------------------------
(* The order of the steps of SpectralStatistics.run *)

Finalized == spc \in {"calculated", "saved"}

----------------------------------------------------------------------------
(* analyses/spectral_statistics.py main: result files combined *)

\* number of result files in the data directory
MaxFiles == 2
\* largest number of realizations recorded in one result file
MaxFileRealizs == 2
\* largest histogram count and largest moment in one result file
MaxFileCount == 1

\* the bin edges every result file of one simulation carries
FileBins == <<0, 1, 2>>

ResultFiles ==
    [realizs : 1..MaxFileRealizs,
     spec_hist : [1..2 -> 0..MaxFileCount],
     mu_1 : 0..MaxFileCount,
     mu_2 : 0..MaxFileCount]

RECURSIVE SumOver(_, _, _)
\* x = files[order[1]].x; then x += files[order[k]].x for the remaining files
SumOver(files, order, k) ==
    IF k = 0 THEN [spec_hist |-> [i \in 1..2 |-> 0], mu_1 |-> 0, mu_2 |-> 0]
    ELSE LET s == SumOver(files, order, k - 1)
             f == files[order[k]]
         IN  [spec_hist |-> [i \in 1..2 |-> s.spec_hist[i] + f.spec_hist[i]],
              mu_1 |-> s.mu_1 + f.mu_1,
              mu_2 |-> s.mu_2 + f.mu_2]

\* realizs = results["realizs"] of the first file listed
StoredRealizs(files, order) == files[order[1]].realizs

\* main() on the files in this order: what it saves
AnalysisOf(files, order) ==
    LET s == SumOver(files, order, Len(files))
        R == StoredRealizs(files, order)
        ratio == RDiv(RInt(s.mu_2), RInt(R))
    IN  [spec_hist |-> Normalize([i \in 1..2 |-> RInt(s.spec_hist[i])], FileBins),
         sff |-> ratio,
         csff |-> RSub(ratio, RDiv(RInt(s.mu_1 * s.mu_1), RInt(R * R))),
         outdir |-> R]

CombInit ==
    /\ resFiles \in [1..MaxFiles -> ResultFiles]
    /\ listing \in [1..2 -> Permutations(1..MaxFiles)]
    /\ combined = [r \in 1..2 |-> None]
    /\ IdleButComb

\* one run of the script
CombineMain ==
    /\ \E r \in 1..2 :
          /\ combined[r] = None
          /\ combined' = [combined EXCEPT ![r] = Some(AnalysisOf(resFiles, listing[r]))]
    /\ UNCHANGED <<resFiles, listing, notComb>>

CombNext == CombineMain

SpecComb == CombInit /\ [][CombNext]_vars

\* C20: the combined result (the normalised histogram of the summed counts,
\* sff and csff of the summed moments) of two runs of the script over the
\* same result files is the same, whatever the order in which each run
\* lists the files.
C20_CombineOrderIrrelevant ==
    (combined[1] # None /\ combined[2] # None) => combined[1] = combined[2]

----------------------------------------------------------------------------
(* spacings_histogram on a spectrum with degenerate levels *)

\* largest level of a spectrum handed to spacings_histogram
MaxSpLevel == 4
\* largest number of distinct levels
MaxDistinct == 3

\* strictly increasing sequences of n levels
DistinctLevels(n) ==
    {s \in [1..n -> 0..MaxSpLevel] : \A j \in 1..(n - 1) : s[j] < s[j + 1]}

\* the spectrum eigvalsh returns: every distinct level g times, ascending
WithCopies(s, g) == [k \in 1..(Len(s) * g) |-> s[((k - 1) \div g) + 1]]

\* the distinct levels of a spectrum in which every level occurs g times
DistinctOf(levels, g) == [j \in 1..(Len(levels) \div g) |-> levels[j * g]]

SpEdges == {<<0, 1, 2>>, <<0, 2, 4>>, <<1, 2, 3>>, <<0, 1, 5>>}

SpacInit ==
    /\ spDegen \in {Degeneracy(e) : e \in StatClasses}
    /\ \E n \in 1..MaxDistinct : \E s \in DistinctLevels(n) :
          spLevels = WithCopies(s, spDegen)
    /\ Len(spLevels) >= 2
    /\ spEdges \in SpEdges
    /\ spCounts = <<>>
    /\ sppc = "call"
    /\ IdleButSpac

\* spacings_histogram(levels, bins, degen)
SpacingsHistogram ==
    /\ sppc = "call"
    /\ spCounts' = spacings_histogram(spLevels, spEdges, spDegen)
    /\ sppc' = "returned"
    /\ UNCHANGED <<spLevels, spDegen, spEdges, notSpac>>

SpacNext == SpacingsHistogram

SpecSpac == SpacInit /\ [][SpacNext]_vars

\* C21: for a spectrum in which every distinct level occurs degen times
\* (degen = 2 for GSE, 1 otherwise) the count of every bin is degen times
\* the number of spacings between consecutive distinct levels that fall in
\* the bin; the zero spacings between copies of a level are not counted.
C21_SpacingsCountedDegenTimes ==
    sppc = "returned" =>
        LET dl == DistinctOf(spLevels, spDegen)
        IN  spCounts = [i \in 1..(Len(spEdges) - 1) |->
                          spDegen * Histogram(Diff(dl), spEdges)[i]]

C21_Witness ==
    /\ sppc = "returned"
    /\ spDegen = 2
    /\ spLevels = <<0, 0, 1, 1, 3, 3>>
    /\ spEdges = <<0, 1, 2>>
    /\ spCounts = <<0, 4>>

----------------------------------------------------------------------------
(* The normalisation of the combined form factors *)

RECURSIVE TotalRealizs(_)
\* the realizations contributed by all the files
TotalRealizs(files) ==
    IF files = <<>> THEN 0 ELSE files[1].realizs + TotalRealizs(Tail(files))

\* C22: the form factors the analysis writes are normalised by the total
\* number of realizations of all the files combined: sff is the summed mu_2
\* over R_total and csff is sff minus the squared summed mu_1 over R_total^2.
C22_NormalisedByTotalRealizs ==
    \A r \in 1..2 :
        combined[r] # None =>
            LET s == SumOver(resFiles, listing[r], Len(resFiles))
                Rt == TotalRealizs(resFiles)
                expected == RDiv(RInt(s.mu_2), RInt(Rt))
            IN  /\ REq(Val(combined[r]).sff, expected)
                /\ REq(Val(combined[r]).csff,
                       RSub(expected, RDiv(RInt(s.mu_1 * s.mu_1), RInt(Rt * Rt))))

----------------------------------------------------------------------------
(* cdo_combine_res: the statistics of the chunks of times put together *)

MaxGridT == 4
MaxChunks == 3

\* every chunk of the size of the quotient
floor_sizes(T, n) == [i \in 0..(n - 1) |-> T \div n]

\* chunk_sizes = [(times.size + i) // ntasks for i in range(ntasks)]
chunk_sizes(T, n) == [i \in 0..(n - 1) |-> (T + i) \div n]

\* indices = np.cumsum([0] + chunk_sizes)
chunk_indices(T, n) == [i \in 0..n |-> SumTo(chunk_sizes(T, n), i)]

\* times[indices[k] : indices[k + 1]]; the times are ascending and are
\* written here as their positions 1..T in the array of all times
times_chunk(T, n, k) ==
    [j \in 1..chunk_sizes(T, n)[k] |-> chunk_indices(T, n)[k] + j]

\* the file that cdo_calc_stats writes for chunk k: its times, and one value
\* per time for each statistic; a value carries the time it was computed at
StatsFile(T, n, k, val) ==
    LET ts == times_chunk(T, n, k)
    IN  [times      |-> ts,
         obs_expect |-> [j \in 1..Len(ts) |-> [at |-> ts[j], stat |-> "obs_expect", v |-> val[ts[j]]]],
         entropy    |-> [j \in 1..Len(ts) |-> [at |-> ts[j], stat |-> "entropy", v |-> val[ts[j]]]]]

RECURSIVE Concatenate(_, _, _)
\* np.concatenate([d[key] for d in data]), data in the order of the listing
Concatenate(data, order, key) ==
    IF order = <<>> THEN <<>>
    ELSE data[order[1]][key] \o Concatenate(data, Tail(order), key)

\* np.argsort(a) of an array of distinct values: the positions (from 1) of
\* its elements in ascending order
ArgSort(a) ==
    CHOOSE p \in [1..Len(a) -> 1..Len(a)] :
        /\ \A i, j \in 1..Len(a) : i # j => p[i] # p[j]
        /\ \A i, j \in 1..Len(a) : i < j => a[p[i]] <= a[p[j]]

\* a[ordered_indices]
TakeAt(a, p) == [i \in 1..Len(p) |-> a[p[i]]]

\* the arrays handed to np.savez_compressed; obs_var, probs, c_purity and
\* q_purity are treated as obs_expect and entropy are
CombinedArchive(data, order) ==
    LET times == Concatenate(data, order, "times")
        ordered_indices == ArgSort(times)
    IN  [times      |-> times,
         obs_expect |-> TakeAt(Concatenate(data, order, "obs_expect"), ordered_indices),
         entropy    |-> TakeAt(Concatenate(data, order, "entropy"), ordered_indices)]

CdorInit ==
    /\ gridT \in 2..MaxGridT
    /\ gridN \in 1..MaxChunks
    /\ gridN <= gridT
    /\ timeVal \in [1..gridT -> 0..1]
    /\ chunkListing \in Permutations(1..gridN)
    /\ archive = <<>>
    /\ cbpc = "listed"
    /\ IdleButCdor

\* main of cdo_combine_res.py
CombineResMain ==
    /\ cbpc = "listed"
    /\ archive' = CombinedArchive([k \in 1..gridN |-> StatsFile(gridT, gridN, k - 1, timeVal)],
                                  chunkListing)
    /\ cbpc' = "written"
    /\ UNCHANGED <<gridT, gridN, timeVal, chunkListing, notCdor>>

CdorNext == CombineResMain

SpecCdor == CdorInit /\ [][CdorNext]_vars

\* C23: in the archive written by the combiner every entry of obs_expect and
\* of entropy at index i belongs to the time stored at times[i], and times is
\* ascending, whatever the order in which the files of the chunks were listed.
C23_EntriesBelongToTimes ==
    cbpc = "written" =>
        /\ \A i \in 1..Len(archive.times) :
              /\ archive.obs_expect[i].at = archive.times[i]
              /\ archive.entropy[i].at = archive.times[i]
        /\ \A i \in 1..(Len(archive.times) - 1) : archive.times[i] < archive.times[i + 1]

----------------------------------------------------------------------------
(* The division of the time points among the tasks *)

MaxSplitT == 6
MaxSplitN == 4

SplitSites == {"CDOEvolve.run", "_calc_cdo_stats"}

\* the lengths of np.array_split(times, num_workers): divmod(T, n), then
\* extras sections of one more than the quotient and n - extras of the quotient
array_split_sizes(T, n) ==
    [i \in 0..(n - 1) |-> IF i < T % n THEN (T \div n) + 1 ELSE T \div n]

\* start = np.sum([len(t) for t in times_split[:worker_id]]); end = start + len(times)
worker_range(T, n, id) ==
    LET start == SumTo(array_split_sizes(T, n), id)
    IN  <<start, start + array_split_sizes(T, n)[id]>>

\* indices[i] : indices[i + 1]
chunk_range(T, n, i) == <<chunk_indices(T, n)[i], chunk_indices(T, n)[i + 1]>>

SplitInit ==
    /\ splitSite \in SplitSites
    /\ splitT \in 1..MaxSplitT
    /\ splitN \in 1..MaxSplitN
    /\ ranges = [k \in 0..(splitN - 1) |-> None]
    /\ kpc = "split"
    /\ IdleButSplit

\* CDOEvolve.run: the views of times and of the evolved states for each task
RunChunks ==
    /\ kpc = "split"
    /\ splitSite = "CDOEvolve.run"
    /\ ranges' = [k \in 0..(splitN - 1) |-> Some(chunk_range(splitT, splitN, k))]
    /\ kpc' = "done"
    /\ UNCHANGED <<splitSite, splitT, splitN, notSplit>>

\* _calc_cdo_stats of one worker of the pool
CalcCdoStats ==
    /\ kpc = "split"
    /\ splitSite = "_calc_cdo_stats"
    /\ \E id \in 0..(splitN - 1) :
          /\ ranges[id] = None
          /\ ranges' = [ranges EXCEPT ![id] = Some(worker_range(splitT, splitN, id))]
    /\ kpc' = IF \A k \in 0..(splitN - 1) : ranges'[k] # None THEN "done" ELSE "split"
    /\ UNCHANGED <<splitSite, splitT, splitN, notSplit>>

SplitNext ==
    \/ RunChunks
    \/ CalcCdoStats

SpecSplit == SplitInit /\ [][SplitNext]_vars

RangeOf(k) == Val(ranges[k])
RangeSize(k) == RangeOf(k)[2] - RangeOf(k)[1]

\* C24: the ranges of time indices given to the tasks are contiguous and
\* ascending, pairwise disjoint, cover every index 0..T-1 exactly once, and
\* their sizes differ by at most one.
C24_RangesPartitionTimes ==
    kpc = "done" =>
        /\ RangeOf(0)[1] = 0
        /\ RangeOf(splitN - 1)[2] = splitT
        /\ \A k \in 0..(splitN - 1) : RangeOf(k)[1] <= RangeOf(k)[2]
        /\ \A k \in 0..(splitN - 2) : RangeOf(k)[2] = RangeOf(k + 1)[1]
        /\ \A t \in 0..(splitT - 1) :
              Cardinality({k \in 0..(splitN - 1) : RangeOf(k)[1] <= t /\ t < RangeOf(k)[2]}) = 1
        /\ \A j, k \in 0..(splitN - 1) :
              RangeSize(j) - RangeSize(k) \in {-1, 0, 1}

C24_Witness ==
    /\ kpc = "done"
    /\ splitSite = "CDOEvolve.run"
    /\ splitT = 5
    /\ splitN = 3
    /\ ranges = [k \in 0..2 |-> Some(<<<<0, 1>>, <<1, 3>>, <<3, 5>>>>[k + 1])]

----------------------------------------------------------------------------
(* CDOEvolution.run: the shared block of evolved states and the two pools *)

MaxShmWorkers == 3

ShmIds == 0..(shmWorkers - 1)

ShmInit ==
    /\ shmWorkers \in 1..MaxShmWorkers
    /\ shmLinked = FALSE
    /\ shmOpen = FALSE
    /\ evolveSt = [id \in 0..(shmWorkers - 1) |-> "pending"]
    /\ statsSt = [id \in 0..(shmWorkers - 1) |-> "pending"]
    /\ runpc = "start"
    /\ IdleButShm

\* self._shm = shared_memory.SharedMemory(create=True, size=self._shm_size)
ShmCreate ==
    /\ runpc = "start"
    /\ shmLinked' = TRUE
    /\ shmOpen' = TRUE
    /\ runpc' = "evolve"
    /\ UNCHANGED <<shmWorkers, evolveSt, statsSt, notShm>>

\* a worker of the first pool enters _calc_evolved_states and attaches to the
\* block by name; without the block SharedMemory(name=...) raises
EvolveBegin ==
    /\ runpc = "evolve"
    /\ \E id \in ShmIds :
          /\ evolveSt[id] = "pending"
          /\ evolveSt' = [evolveSt EXCEPT ![id] = IF shmLinked THEN "running" ELSE "failed"]
    /\ UNCHANGED <<shmWorkers, shmLinked, shmOpen, statsSt, runpc, notShm>>

\* the worker has written its slice and closed its handle, or an exception
\* left the function
EvolveEnd ==
    /\ runpc = "evolve"
    /\ \E id \in ShmIds : \E result \in {"done", "failed"} :
          /\ evolveSt[id] = "running"
          /\ evolveSt' = [evolveSt EXCEPT ![id] = result]
    /\ UNCHANGED <<shmWorkers, shmLinked, shmOpen, statsSt, runpc, notShm>>

\* pool.map(_calc_evolved_states, worker_args) is ready once all its jobs are
\* done; it returns, or raises the first exception of a worker, and the with
\* block terminates the pool. Nothing in run catches the exception.
EvolveMapReturn ==
    /\ runpc = "evolve"
    /\ \A id \in ShmIds : evolveSt[id] \in {"done", "failed"}
    /\ runpc' = IF \E id \in ShmIds : evolveSt[id] = "failed" THEN "raised" ELSE "stats"
    /\ UNCHANGED <<shmWorkers, shmLinked, shmOpen, evolveSt, statsSt, notShm>>

\* a worker of the second pool enters _calc_cdo_stats and attaches to the block
StatsBegin ==
    /\ runpc = "stats"
    /\ \E id \in ShmIds :
          /\ statsSt[id] = "pending"
          /\ statsSt' = [statsSt EXCEPT ![id] = IF shmLinked THEN "running" ELSE "failed"]
    /\ UNCHANGED <<shmWorkers, shmLinked, shmOpen, evolveSt, runpc, notShm>>

\* the worker has read its times from the block and closed its handle, or an
\* exception left the function
StatsEnd ==
    /\ runpc = "stats"
    /\ \E id \in ShmIds : \E result \in {"done", "failed"} :
          /\ statsSt[id] = "running"
          /\ statsSt' = [statsSt EXCEPT ![id] = result]
    /\ UNCHANGED <<shmWorkers, shmLinked, shmOpen, evolveSt, runpc, notShm>>

\* cdo_stats = pool.map(_calc_cdo_stats, worker_args)
StatsMapReturn ==
    /\ runpc = "stats"
    /\ \A id \in ShmIds : statsSt[id] \in {"done", "failed"}
    /\ runpc' = IF \E id \in ShmIds : statsSt[id] = "failed" THEN "raised" ELSE "close"
    /\ UNCHANGED <<shmWorkers, shmLinked, shmOpen, evolveSt, statsSt, notShm>>

\* self._shm.close()
ShmClose ==
    /\ runpc = "close"
    /\ shmOpen' = FALSE
    /\ runpc' = "unlink"
    /\ UNCHANGED <<shmWorkers, shmLinked, evolveSt, statsSt, notShm>>

\* self._shm.unlink()
ShmUnlink ==
    /\ runpc = "unlink"
    /\ shmLinked' = FALSE
    /\ runpc' = "process"
    /\ UNCHANGED <<shmWorkers, shmOpen, evolveSt, statsSt, notShm>>

\* self._process_cdo_stats(cdo_stats) and the elapsed time
ProcessCdoStats ==
    /\ runpc = "process"
    /\ runpc' = "returned"
    /\ UNCHANGED <<shmWorkers, shmLinked, shmOpen, evolveSt, statsSt, notShm>>

ShmNext ==
    \/ ShmCreate
    \/ EvolveBegin
    \/ EvolveEnd
    \/ EvolveMapReturn
    \/ StatsBegin
    \/ StatsEnd
    \/ StatsMapReturn
    \/ ShmClose
    \/ ShmUnlink
    \/ ProcessCdoStats

SpecShm == ShmInit /\ [][ShmNext]_vars

\* C25: no statistics worker reads the block before every evolve worker has
\* written its slice, no worker uses the block once it is unlinked, and
\* whichever way run ends, by returning or by the exception of a worker, the
\* block it created has been unlinked.
C25_BlockUnlinkedOnEveryExit ==
    /\ (\E id \in ShmIds : statsSt[id] = "running") =>
          \A id \in ShmIds : evolveSt[id] = "done"
    /\ (\E id \in ShmIds : evolveSt[id] = "running" \/ statsSt[id] = "running") => shmLinked
    /\ runpc \in {"returned", "raised"} => ~shmLinked

----------------------------------------------------------------------------
(* Evolve tasks and a statistics task on one times_n directory *)

MaxEvolveTasks == 2

\* number of entries np.savez_compressed writes into an archive of states,
\* the end-of-archive record included
ArchiveEntries == 2

\* a file name as its parts between the dots
\* f"{process_id}.npz"
npz_name(id) == <<id, "npz">>
\* f"{process_id}.npz.tmp"
npz_tmp_name(id) == <<id, "npz", "tmp">>

\* the part after the first dot
first_suffix(name) == IF Len(name) > 1 THEN name[2] ELSE ""

\* Path.suffix: the part after the last dot
suffix(name) == IF Len(name) > 1 THEN name[Len(name)] ELSE ""

TaskIds == 0..(numTasks - 1)
DirNames == {npz_name(id) : id \in 0..(MaxEvolveTasks - 1)}
               \cup {npz_tmp_name(id) : id \in 0..(MaxEvolveTasks - 1)}

\* a file: the tasks of this run that wrote it, and the entries it holds
FileOf(ids, k) == Some([by |-> ids, entries |-> k])

ConcInit ==
    /\ numTasks \in 1..MaxEvolveTasks
    \* an earlier run may have left complete archives and the temporary
    \* files of tasks that were interrupted
    /\ \E old \in SUBSET {nm \in DirNames : nm[1] < numTasks} :
          dirFiles = [nm \in DirNames |->
                        IF nm \notin old THEN None
                        ELSE IF suffix(nm) = "npz" THEN FileOf({}, ArchiveEntries)
                        ELSE FileOf({}, 1)]
    /\ taskpc = [id \in 0..(numTasks - 1) |-> "start"]
    /\ listed = None
    /\ loadedFiles = {}
    /\ IdleButConc

\* open(temp_file_name, "wb")
EvolveOpenTmp ==
    /\ \E id \in TaskIds :
          /\ taskpc[id] = "start"
          /\ dirFiles' = [dirFiles EXCEPT ![npz_tmp_name(id)] =
                             FileOf((IF dirFiles[npz_tmp_name(id)] = None THEN {}
                                     ELSE Val(dirFiles[npz_tmp_name(id)]).by) \cup {id}, 0)]
          /\ taskpc' = [taskpc EXCEPT ![id] = "open"]
    /\ UNCHANGED <<numTasks, listed, loadedFiles, notConc>>

\* np.savez_compressed writes the next entry into the temporary file
EvolveSavez ==
    /\ \E id \in TaskIds :
          /\ taskpc[id] = "open"
          /\ Val(dirFiles[npz_tmp_name(id)]).entries < ArchiveEntries
          /\ dirFiles' = [dirFiles EXCEPT ![npz_tmp_name(id)] =
                             FileOf(Val(@).by, Val(@).entries + 1)]
    /\ UNCHANGED <<numTasks, taskpc, listed, loadedFiles, notConc>>

\* temp_file.flush(); os.fsync(temp_file.fileno()); the with block closes the file
EvolveSync ==
    /\ \E id \in TaskIds :
          /\ taskpc[id] = "open"
          /\ Val(dirFiles[npz_tmp_name(id)]).entries = ArchiveEntries
          /\ taskpc' = [taskpc EXCEPT ![id] = "synced"]
    /\ UNCHANGED <<numTasks, dirFiles, listed, loadedFiles, notConc>>

\* shutil.move(temp_file_name, file_name): a rename within the directory
EvolveMove ==
    /\ \E id \in TaskIds :
          /\ taskpc[id] = "synced"
          /\ dirFiles' = [dirFiles EXCEPT ![npz_name(id)] = dirFiles[npz_tmp_name(id)],
                                          ![npz_tmp_name(id)] = None]
          /\ taskpc' = [taskpc EXCEPT ![id] = "moved"]
    /\ UNCHANGED <<numTasks, listed, loadedFiles, notConc>>

\* cdo_calc_stats main: the files of Path(data_dir).iterdir() with suffix ".npz"
StatsListDir ==
    /\ listed = None
    /\ listed' = Some({nm \in DirNames : dirFiles[nm] # None /\ suffix(nm) = "npz"})
    /\ UNCHANGED <<numTasks, dirFiles, taskpc, loadedFiles, notConc>>

\* np.load(file) of one of the listed files
StatsLoadFile ==
    /\ listed # None
    /\ \E nm \in Val(listed) :
          /\ \A l \in loadedFiles : l.name # nm
          /\ dirFiles[nm] # None
          /\ loadedFiles' = loadedFiles \cup {[name |-> nm, entries |-> Val(dirFiles[nm]).entries]}
    /\ UNCHANGED <<numTasks, dirFiles, taskpc, listed, notConc>>

ConcNext ==
    \/ EvolveOpenTmp
    \/ EvolveSavez
    \/ EvolveSync
    \/ EvolveMove
    \/ StatsListDir
    \/ StatsLoadFile

SpecConc == ConcInit /\ [][ConcNext]_vars

\* C26: whatever the interleaving of the evolve tasks and the statistics
\* task, every file the statistics task loads is a complete archive, and no
\* temporary or final file is written by two tasks of different process ids.
C26_OnlyCompleteArchivesLoaded ==
    /\ \A l \in loadedFiles : l.entries = ArchiveEntries
    /\ \A nm \in DirNames : dirFiles[nm] # None => Cardinality(Val(dirFiles[nm]).by) <= 1

\* the statistics task has loaded the archive of one task while another task
\* is in the middle of writing its temporary file
C26_Witness ==
    /\ numTasks = 2
    /\ loadedFiles = {[name |-> npz_name(0), entries |-> ArchiveEntries]}
    /\ Val(dirFiles[npz_name(0)]).by = {0}
    /\ taskpc[1] = "open"
    /\ dirFiles[npz_tmp_name(1)] = FileOf({1}, 1)

----------------------------------------------------------------------------
(* Streams: the arrays yielded and the arrays written by later steps *)

MaxAliasR == 3

AliasKinds ==
    {"Poisson.eigvals_stream", "Poisson.eig_stream",
     "ManyBodyEnsemble.eigvals_stream", "ManyBodyEnsemble.eig_stream"}

\* two uniform draws; in units of sigma / 2 a draw u becomes 2u - 1
UniformDraws == [1..2 -> 0..1]

\* eigvals -= 0.5; eigvals *= self.sigma
Centred(u) == [i \in 1..2 |-> 2 * u[i] - 1]

\* eigvals.sort()
SortPair(a) == IF a[1] <= a[2] THEN a ELSE <<a[2], a[1]>>

\* what np.empty leaves in an array
Uninit == <<"uninitialized">>

\* the contents of the arrays of a result
Contents(heap, refs) == [i \in 1..Len(refs) |-> heap[refs[i]]]

AliasInit ==
    /\ alKind \in AliasKinds
    /\ alR \in 0..MaxAliasR
    /\ alHeap = <<>>
    /\ alBind = <<>>
    /\ alHeld = <<>>
    /\ alSeen = <<>>
    /\ alpc = "created"
    /\ IdleButAlias

\* the heap and the bindings when the loop is entered: the first next()
\* runs the allocations that precede the loop
Entered(n) ==
    IF alpc = "created"
    THEN [heap |-> [i \in 1..n |-> Uninit], bind |-> [i \in 1..n |-> i]]
    ELSE [heap |-> alHeap, bind |-> alBind]

\* the generator returns: the loop has run realizs times
AliasEnd(n) ==
    /\ Len(alHeld) = alR
    /\ alHeap' = Entered(n).heap
    /\ alBind' = Entered(n).bind
    /\ alpc' = "ended"
    /\ UNCHANGED <<alHeld, alSeen>>

\* the generator yields the arrays refs out of the heap h
AliasYield(h, b, refs) ==
    /\ alHeap' = h
    /\ alBind' = b
    /\ alHeld' = Append(alHeld, refs)
    /\ alSeen' = Append(alSeen, Contents(h, refs))
    /\ alpc' = "suspended"

\* next() on Poisson.eigvals_stream: the one array eigvals is filled again
\* and yielded
PoissonEigvalsNext ==
    /\ alKind = "Poisson.eigvals_stream"
    /\ alpc \in {"created", "suspended"}
    /\ \/ AliasEnd(1)
       \/ /\ Len(alHeld) < alR
          /\ \E u \in UniformDraws :
                LET e == Entered(1)
                    h == [e.heap EXCEPT ![e.bind[1]] = SortPair(Centred(u))]
                IN  AliasYield(h, e.bind, <<e.bind[1]>>)
    /\ UNCHANGED <<alKind, alR, notAlias>>

\* next() on Poisson.eig_stream: eigvals is filled again; the array U is
\* bound to is filled with a Ginibre matrix and factorized, and U is bound
\* to what zungqr returns, the array it was given or a new one
PoissonEigNext ==
    /\ alKind = "Poisson.eig_stream"
    /\ alpc \in {"created", "suspended"}
    /\ \/ AliasEnd(2)
       \/ /\ Len(alHeld) < alR
          /\ \E u \in UniformDraws, g \in 0..1, inplace \in BOOLEAN :
                LET e == Entered(2)
                    h1 == [e.heap EXCEPT ![e.bind[1]] = SortPair(Centred(u))]
                    h2 == IF inplace
                          THEN [h1 EXCEPT ![e.bind[2]] = <<"Q", g>>]
                          ELSE Append([h1 EXCEPT ![e.bind[2]] = <<"factors", g>>], <<"Q", g>>)
                    b == IF inplace THEN e.bind ELSE <<e.bind[1], Len(h2)>>
                IN  AliasYield(h2, b, b)
    /\ UNCHANGED <<alKind, alR, notAlias>>

\* next() on ManyBodyEnsemble.eigvals_stream: H is zeroed and generated into,
\* eigvalsh destroys H and returns the eigenvalues in a new array
ManyBodyEigvalsNext ==
    /\ alKind = "ManyBodyEnsemble.eigvals_stream"
    /\ alpc \in {"created", "suspended"}
    /\ \/ AliasEnd(1)
       \/ /\ Len(alHeld) < alR
          /\ \E u \in UniformDraws :
                LET e == Entered(1)
                    h == Append([e.heap EXCEPT ![e.bind[1]] = <<"destroyed">>],
                                SortPair(Centred(u)))
                IN  AliasYield(h, e.bind, <<Len(h)>>)
    /\ UNCHANGED <<alKind, alR, notAlias>>

\* next() on ManyBodyEnsemble.eig_stream: eigh returns the eigenvalues and
\* the eigenvectors in two new arrays
ManyBodyEigNext ==
    /\ alKind = "ManyBodyEnsemble.eig_stream"
    /\ alpc \in {"created", "suspended"}
    /\ \/ AliasEnd(1)
       \/ /\ Len(alHeld) < alR
          /\ \E u \in UniformDraws, g \in 0..1 :
                LET e == Entered(1)
                    h == [e.heap EXCEPT ![e.bind[1]] = <<"destroyed">>]
                           \o <<SortPair(Centred(u)), <<"vectors", g>>>>
                IN  AliasYield(h, e.bind, <<Len(h) - 1, Len(h)>>)
    /\ UNCHANGED <<alKind, alR, notAlias>>

AliasNext ==
    \/ PoissonEigvalsNext
    \/ PoissonEigNext
    \/ ManyBodyEigvalsNext
    \/ ManyBodyEigNext

SpecAlias == AliasInit /\ [][AliasNext]_vars

\* C27: an array yielded by a stream is not modified by any later step of
\* the stream: the arrays of the k-th result still hold the values of the
\* k-th realization after later results were requested, for every ensemble.
C27_YieldedNotModified ==
    \A k \in 1..Len(alHeld) : Contents(alHeap, alHeld[k]) = alSeen[k]

----------------------------------------------------------------------------
(* realize_monte_carlo called again on the same simulation object *)

MaxRescCalls == 3

RescSims == {"SpectralStatistics", "CDOEvolution"}

\* a time grid: the exponents of the logspace it was built from, and the
\* in-place operations applied to it since, in order
TimeGrid(f) == [exponents |-> Times(f), ops |-> <<>>]

\* times[:] **= np.log(dim) / np.log(10.0)
RaiseTo(t, p) == [t EXCEPT !.ops = Append(@, <<"**=", p>>)]

\* times[:] *= factor
MultiplyBy(t, factor) == [t EXCEPT !.ops = Append(@, <<"*=", factor>>)]

\* the first lines of realize_monte_carlo of a SpectralStatistics: every grid
\* is rescaled in place
RescaleSpectral(g, d) ==
    [bins      |-> Scale(g.bins, E0(d)),
     unf_bins  |-> Scale(g.unf_bins, d \div 2),
     spac_bins |-> Scale(g.spac_bins, MeanSpacing(d)),
     times     |-> MultiplyBy(RaiseTo(g.times, "log(dim)/log(10)"), "j_1_1/E0"),
     unf_times |-> MultiplyBy(RaiseTo(g.unf_times, "log(dim)/log(10)"), "2*pi")]

\* the first lines of realize_monte_carlo of the CDO simulation
RescaleCdo(g, d) ==
    [g EXCEPT !.times = MultiplyBy(RaiseTo(g.times, "log(dim)/log(10)"), "j_1_1/E0")]

RescInit ==
    /\ rsSim \in RescSims
    /\ \E n \in {4, 6, 8, 10} : rsDim = DimOfN(n)
    /\ \E c \in BinConfigs :
          rsGrids = IF rsSim = "SpectralStatistics"
                    THEN [bins |-> Linspace(c), unf_bins |-> Linspace(c),
                          spac_bins |-> Linspace(c),
                          times |-> TimeGrid("raw"), unf_times |-> TimeGrid("unf")]
                    ELSE [times |-> TimeGrid("raw")]
    /\ rsCalls = 0
    /\ rsFirst = None
    /\ IdleButResc

\* SpectralStatistics.realize_monte_carlo; its loop adds to the histograms
\* and the moments and leaves the grids alone
SpectralRealizeMonteCarlo ==
    /\ rsSim = "SpectralStatistics"
    /\ rsCalls < MaxRescCalls
    /\ rsGrids' = RescaleSpectral(rsGrids, rsDim)
    /\ rsCalls' = rsCalls + 1
    /\ rsFirst' = IF rsCalls = 0 THEN Some(rsGrids') ELSE rsFirst
    /\ UNCHANGED <<rsSim, rsDim, notResc>>

\* realize_monte_carlo of the CDO simulation
CdoRealizeMonteCarlo ==
    /\ rsSim = "CDOEvolution"
    /\ rsCalls < MaxRescCalls
    /\ rsGrids' = RescaleCdo(rsGrids, rsDim)
    /\ rsCalls' = rsCalls + 1
    /\ rsFirst' = IF rsCalls = 0 THEN Some(rsGrids') ELSE rsFirst
    /\ UNCHANGED <<rsSim, rsDim, notResc>>

RescNext ==
    \/ SpectralRealizeMonteCarlo
    \/ CdoRealizeMonteCarlo

SpecResc == RescInit /\ [][RescNext]_vars

\* C28: the grids of the data containers are rescaled once per simulation
\* object: after any number of calls of realize_monte_carlo, bins, unf_bins,
\* times and unf_times hold what they held after the first call.
C28_RescaledOnce ==
    rsCalls >= 1 => rsGrids = Val(rsFirst)

----------------------------------------------------------------------------
(* Poisson.cdf *)

MaxCdfE0 == 3
CdfArgLen == 2

\* cdf = np.zeros_like(eigval); cdf[|eigval| < E0] = eigval / (2 * E0) + 0.5;
\* cdf[eigval > E0] = 1.0, for one element of the array
PoissonCdfAt(E, e0) ==
    IF Abs(E) < e0 THEN RAdd(RDiv(RInt(E), RInt(2 * e0)), Rat(1, 2))
    ELSE IF E > e0 THEN RInt(1)
    ELSE RInt(0)

\* Poisson.cdf(eigval)
PoissonCdf(eigval, e0) == [i \in 1..Len(eigval) |-> PoissonCdfAt(eigval[i], e0)]

CdfInit ==
    /\ cdfE0 \in 1..MaxCdfE0
    /\ cdfArg \in [1..CdfArgLen -> (-(cdfE0 + 1))..(cdfE0 + 1)]
    /\ cdfOut = <<>>
    /\ cdfpc = "call"
    /\ IdleButCdf

\* a call of Poisson.cdf
CallPoissonCdf ==
    /\ cdfpc = "call"
    /\ cdfOut' = PoissonCdf(cdfArg, cdfE0)
    /\ cdfpc' = "returned"
    /\ UNCHANGED <<cdfE0, cdfArg, notCdf>>

CdfNext == CallPoissonCdf

SpecCdf == CdfInit /\ [][CdfNext]_vars

\* C29: Poisson.cdf is non-decreasing in its argument, is 0 for every
\* E <= -E0 and is 1 for every E >= E0.
C29_PoissonCdfMonotone ==
    cdfpc = "returned" =>
        /\ \A i \in 1..Len(cdfArg) :
              /\ cdfArg[i] <= -cdfE0 => REq(cdfOut[i], RInt(0))
              /\ cdfArg[i] >= cdfE0 => REq(cdfOut[i], RInt(1))
        /\ \A i, j \in 1..Len(cdfArg) :
              cdfArg[i] <= cdfArg[j] => RLeq(cdfOut[i], cdfOut[j])

----------------------------------------------------------------------------
(* The numerical cumulative density and its cache *)

MaxNcCalls == 5

NcClasses == {"ManyBodyEnsemble", "RMT"}

\* the cache of a function at the moment @lru_cache(maxsize=1) decorates it
NewLruCache == {}

\* a call of an lru_cache-wrapped function with arguments key: whether the
\* body runs, and the cache afterwards (at most one entry is kept)
LruCall(cache, key) == [miss |-> key \notin cache, cache |-> {key}]

\* ManyBodyEnsemble.cdf: the def statement inside the method makes a new
\* numerical_cdf, wrapped with a new cache, each time cdf is called;
\* numerical_cdf() is then called once. The number of integrations it runs:
CdfIntegrations ==
    LET call == LruCall(NewLruCache, <<>>)
    IN  IF call.miss THEN 1 ELSE 0

NcdfInit ==
    /\ ncClass \in NcClasses
    /\ ncStored = None
    /\ ncIntegrations = 0
    /\ ncLog = <<>>
    /\ ncpc = "new"
    /\ IdleButNcdf

\* construction; RMT.__init__ ends with _create_cumulative_density, which
\* integrates and stores the interpolant in self._cumulative_density
NcdfConstruct ==
    /\ ncpc = "new"
    /\ IF ncClass = "RMT"
       THEN /\ ncStored' = Some("interp1d")
            /\ ncIntegrations' = ncIntegrations + 1
       ELSE UNCHANGED <<ncStored, ncIntegrations>>
    /\ ncpc' = "built"
    /\ UNCHANGED <<ncClass, ncLog, notNcdf>>

\* ensemble.cdf(eigval) / ensemble.cumulative_density(eigenvalue)
NcdfCdf ==
    /\ ncpc = "built"
    /\ Len(ncLog) < MaxNcCalls
    /\ ncIntegrations' = IF ncClass = "RMT" THEN ncIntegrations
                         ELSE ncIntegrations + CdfIntegrations
    /\ ncLog' = Append(ncLog, "cdf")
    /\ UNCHANGED <<ncClass, ncStored, ncpc, notNcdf>>

\* ensemble.unfold(eigval): ManyBodyEnsemble.unfold calls self.cdf twice,
\* RMT.unfold calls cumulative_density once
NcdfUnfold ==
    /\ ncpc = "built"
    /\ Len(ncLog) < MaxNcCalls
    /\ ncIntegrations' = IF ncClass = "RMT" THEN ncIntegrations
                         ELSE ncIntegrations + 2 * CdfIntegrations
    /\ ncLog' = Append(ncLog, "unfold")
    /\ UNCHANGED <<ncClass, ncStored, ncpc, notNcdf>>

NcdfNext ==
    \/ NcdfConstruct
    \/ NcdfCdf
    \/ NcdfUnfold

SpecNcdf == NcdfInit /\ [][NcdfNext]_vars

\* C30: over any sequence of cdf and unfold calls on one ensemble object the
\* trapezoidal integration that builds the interpolant runs at most once.
C30_IntegratedAtMostOnce ==
    ncIntegrations <= 1

====
